---------------------------- MODULE Spec2Model ----------------------------
(***************************************************************************)
(* A model of FluffyTagProcessor (src/fluffytagprocessor/processor.py):    *)
(* the incremental tag scanner, its tag stack and its callback dispatch.   *)
(*                                                                         *)
(* Strings are sequences of characters (an ASCII character is itself, a    *)
(* character beyond ASCII the name of its code point).  A callable is an  *)
(* opaque identifier; the identifiers in RaisingCallables raise when they  *)
(* are invoked, and the values in NonCallables are not callable at all.    *)
(* Every Python method is an operator from the processor                   *)
(* (a record of its fields) to the processor after the call; a Python      *)
(* exception in flight is the field exc of that record.                    *)
(***************************************************************************)
EXTENDS Integers, Sequences, FiniteSets, TLC

VARIABLES
    tag_configs,               \* self.tag_configs: tag name -> TagConfig
    tag_stack,                 \* self.tag_stack: sequence of TagContext
    partial_buffer,            \* self.partial_buffer
    untagged_content,          \* self.untagged_content
    in_tag,                    \* self.in_tag
    current_tag,               \* self.current_tag
    json_depth,                \* self.json_depth
    in_quotes,                 \* self.in_quotes
    quote_char,                \* self.quote_char
    untagged_content_handler,  \* self.untagged_content_handler
    error_handler_fn,          \* self.error_handler
    auto_process_untagged,     \* self.auto_process_untagged
    auto_process_threshold,    \* self.auto_process_threshold
    op,                        \* the feed method, flush or reset called last
    arg,                       \* its argument: the tokens it was given
    calls,                     \* the user callbacks it invoked, in order
    caught,                    \* the errors its error boundary caught, in order
    delivered,                 \* the errors handed to self.error_handler
    raised,                    \* the exception that escaped to the caller
    scanned,                   \* per token: the characters given to _process_char
    feeds,                     \* feed, flush and reset calls so far
    setups                     \* registration and configuration calls so far

vars == <<tag_configs, tag_stack, partial_buffer, untagged_content, in_tag,
          current_tag, json_depth, in_quotes, quote_char,
          untagged_content_handler, error_handler_fn, auto_process_untagged,
          auto_process_threshold, op, arg, calls, caught, delivered, raised,
          scanned, feeds, setups>>

-----------------------------------------------------------------------------
(* Python values *)

None == "None"

\* No exception in flight.
NoExc == [kind |-> "none", message |-> "", ctx |-> [x \in {} |-> <<>>]]

\* A character is a string: the character itself when it is ASCII, and
\* otherwise the name of its code point, "U+" followed by its four to six
\* upper-case hexadecimal digits ("U+00E9", "U+2003", "U+4E2D").  Characters
\* are compared by equality and classified by IsSpace and IsWord only.
IsAscii(c) == Len(c) = 1

HexDigits ==
    <<"0", "1", "2", "3", "4", "5", "6", "7", "8", "9",
      "A", "B", "C", "D", "E", "F">>

HexValue(d) == (CHOOSE i \in DOMAIN HexDigits : HexDigits[i] = d) - 1

RECURSIVE Hex(_)
Hex(digits) ==
    IF Len(digits) = 0 THEN 0
    ELSE 16 * Hex(SubSeq(digits, 1, Len(digits) - 1))
         + HexValue(SubSeq(digits, Len(digits), Len(digits)))

\* ord(c) of a character beyond ASCII.
CodePoint(c) == Hex(SubSeq(c, 3, Len(c)))

\* The characters str.strip, str.split and the regex class \s take for
\* whitespace (those str.isspace is true of), 29 in all: \t, \n, U+000B, \f,
\* \r, U+001C to U+001F and the space, written as they are, and beyond ASCII
\* U+0085, U+00A0, U+1680, U+2000 to U+200A, U+2028, U+2029, U+202F, U+205F
\* and U+3000.
Whitespace ==
    {" ", "\t", "\n", "\r", "\f", "", "", "", "", "",
     "U+0085", "U+00A0", "U+1680",
     "U+2000", "U+2001", "U+2002", "U+2003", "U+2004", "U+2005", "U+2006",
     "U+2007", "U+2008", "U+2009", "U+200A",
     "U+2028", "U+2029", "U+202F", "U+205F", "U+3000"}

IsSpace(c) == c \in Whitespace

\* The ASCII characters the regex class \w matches: letters of both cases,
\* digits and the underscore.
AsciiWordChars ==
    {"a", "b", "c", "d", "e", "f", "g", "h", "i", "j", "k", "l", "m", "n",
     "o", "p", "q", "r", "s", "t", "u", "v", "w", "x", "y", "z",
     "A", "B", "C", "D", "E", "F", "G", "H", "I", "J", "K", "L", "M", "N",
     "O", "P", "Q", "R", "S", "T", "U", "V", "W", "X", "Y", "Z", "_",
     "0", "1", "2", "3", "4", "5", "6", "7", "8", "9"}

\* The characters beyond ASCII that \w matches in a str pattern (the
\* alphanumeric characters of Unicode 14.0), as ranges <<first, last>> of
\* code points in increasing order.
WordRanges ==
    <<<<170, 170>>, <<178, 179>>, <<181, 181>>, <<185, 186>>, <<188, 190>>,
      <<192, 214>>, <<216, 246>>, <<248, 705>>, <<710, 721>>, <<736, 740>>,
      <<748, 748>>, <<750, 750>>, <<880, 884>>, <<886, 887>>, <<890, 893>>,
      <<895, 895>>, <<902, 902>>, <<904, 906>>, <<908, 908>>, <<910, 929>>,
      <<931, 1013>>, <<1015, 1153>>, <<1162, 1327>>, <<1329, 1366>>,
      <<1369, 1369>>, <<1376, 1416>>, <<1488, 1514>>, <<1519, 1522>>,
      <<1568, 1610>>, <<1632, 1641>>, <<1646, 1647>>, <<1649, 1747>>,
      <<1749, 1749>>, <<1765, 1766>>, <<1774, 1788>>, <<1791, 1791>>,
      <<1808, 1808>>, <<1810, 1839>>, <<1869, 1957>>, <<1969, 1969>>,
      <<1984, 2026>>, <<2036, 2037>>, <<2042, 2042>>, <<2048, 2069>>,
      <<2074, 2074>>, <<2084, 2084>>, <<2088, 2088>>, <<2112, 2136>>,
      <<2144, 2154>>, <<2160, 2183>>, <<2185, 2190>>, <<2208, 2249>>,
      <<2308, 2361>>, <<2365, 2365>>, <<2384, 2384>>, <<2392, 2401>>,
      <<2406, 2415>>, <<2417, 2432>>, <<2437, 2444>>, <<2447, 2448>>,
      <<2451, 2472>>, <<2474, 2480>>, <<2482, 2482>>, <<2486, 2489>>,
      <<2493, 2493>>, <<2510, 2510>>, <<2524, 2525>>, <<2527, 2529>>,
      <<2534, 2545>>, <<2548, 2553>>, <<2556, 2556>>, <<2565, 2570>>,
      <<2575, 2576>>, <<2579, 2600>>, <<2602, 2608>>, <<2610, 2611>>,
      <<2613, 2614>>, <<2616, 2617>>, <<2649, 2652>>, <<2654, 2654>>,
      <<2662, 2671>>, <<2674, 2676>>, <<2693, 2701>>, <<2703, 2705>>,
      <<2707, 2728>>, <<2730, 2736>>, <<2738, 2739>>, <<2741, 2745>>,
      <<2749, 2749>>, <<2768, 2768>>, <<2784, 2785>>, <<2790, 2799>>,
      <<2809, 2809>>, <<2821, 2828>>, <<2831, 2832>>, <<2835, 2856>>,
      <<2858, 2864>>, <<2866, 2867>>, <<2869, 2873>>, <<2877, 2877>>,
      <<2908, 2909>>, <<2911, 2913>>, <<2918, 2927>>, <<2929, 2935>>,
      <<2947, 2947>>, <<2949, 2954>>, <<2958, 2960>>, <<2962, 2965>>,
      <<2969, 2970>>, <<2972, 2972>>, <<2974, 2975>>, <<2979, 2980>>,
      <<2984, 2986>>, <<2990, 3001>>, <<3024, 3024>>, <<3046, 3058>>,
      <<3077, 3084>>, <<3086, 3088>>, <<3090, 3112>>, <<3114, 3129>>,
      <<3133, 3133>>, <<3160, 3162>>, <<3165, 3165>>, <<3168, 3169>>,
      <<3174, 3183>>, <<3192, 3198>>, <<3200, 3200>>, <<3205, 3212>>,
      <<3214, 3216>>, <<3218, 3240>>, <<3242, 3251>>, <<3253, 3257>>,
      <<3261, 3261>>, <<3293, 3294>>, <<3296, 3297>>, <<3302, 3311>>,
      <<3313, 3314>>, <<3332, 3340>>, <<3342, 3344>>, <<3346, 3386>>,
      <<3389, 3389>>, <<3406, 3406>>, <<3412, 3414>>, <<3416, 3425>>,
      <<3430, 3448>>, <<3450, 3455>>, <<3461, 3478>>, <<3482, 3505>>,
      <<3507, 3515>>, <<3517, 3517>>, <<3520, 3526>>, <<3558, 3567>>,
      <<3585, 3632>>, <<3634, 3635>>, <<3648, 3654>>, <<3664, 3673>>,
      <<3713, 3714>>, <<3716, 3716>>, <<3718, 3722>>, <<3724, 3747>>,
      <<3749, 3749>>, <<3751, 3760>>, <<3762, 3763>>, <<3773, 3773>>,
      <<3776, 3780>>, <<3782, 3782>>, <<3792, 3801>>, <<3804, 3807>>,
      <<3840, 3840>>, <<3872, 3891>>, <<3904, 3911>>, <<3913, 3948>>,
      <<3976, 3980>>, <<4096, 4138>>, <<4159, 4169>>, <<4176, 4181>>,
      <<4186, 4189>>, <<4193, 4193>>, <<4197, 4198>>, <<4206, 4208>>,
      <<4213, 4225>>, <<4238, 4238>>, <<4240, 4249>>, <<4256, 4293>>,
      <<4295, 4295>>, <<4301, 4301>>, <<4304, 4346>>, <<4348, 4680>>,
      <<4682, 4685>>, <<4688, 4694>>, <<4696, 4696>>, <<4698, 4701>>,
      <<4704, 4744>>, <<4746, 4749>>, <<4752, 4784>>, <<4786, 4789>>,
      <<4792, 4798>>, <<4800, 4800>>, <<4802, 4805>>, <<4808, 4822>>,
      <<4824, 4880>>, <<4882, 4885>>, <<4888, 4954>>, <<4969, 4988>>,
      <<4992, 5007>>, <<5024, 5109>>, <<5112, 5117>>, <<5121, 5740>>,
      <<5743, 5759>>, <<5761, 5786>>, <<5792, 5866>>, <<5870, 5880>>,
      <<5888, 5905>>, <<5919, 5937>>, <<5952, 5969>>, <<5984, 5996>>,
      <<5998, 6000>>, <<6016, 6067>>, <<6103, 6103>>, <<6108, 6108>>,
      <<6112, 6121>>, <<6128, 6137>>, <<6160, 6169>>, <<6176, 6264>>,
      <<6272, 6276>>, <<6279, 6312>>, <<6314, 6314>>, <<6320, 6389>>,
      <<6400, 6430>>, <<6470, 6509>>, <<6512, 6516>>, <<6528, 6571>>,
      <<6576, 6601>>, <<6608, 6618>>, <<6656, 6678>>, <<6688, 6740>>,
      <<6784, 6793>>, <<6800, 6809>>, <<6823, 6823>>, <<6917, 6963>>,
      <<6981, 6988>>, <<6992, 7001>>, <<7043, 7072>>, <<7086, 7141>>,
      <<7168, 7203>>, <<7232, 7241>>, <<7245, 7293>>, <<7296, 7304>>,
      <<7312, 7354>>, <<7357, 7359>>, <<7401, 7404>>, <<7406, 7411>>,
      <<7413, 7414>>, <<7418, 7418>>, <<7424, 7615>>, <<7680, 7957>>,
      <<7960, 7965>>, <<7968, 8005>>, <<8008, 8013>>, <<8016, 8023>>,
      <<8025, 8025>>, <<8027, 8027>>, <<8029, 8029>>, <<8031, 8061>>,
      <<8064, 8116>>, <<8118, 8124>>, <<8126, 8126>>, <<8130, 8132>>,
      <<8134, 8140>>, <<8144, 8147>>, <<8150, 8155>>, <<8160, 8172>>,
      <<8178, 8180>>, <<8182, 8188>>, <<8304, 8305>>, <<8308, 8313>>,
      <<8319, 8329>>, <<8336, 8348>>, <<8450, 8450>>, <<8455, 8455>>,
      <<8458, 8467>>, <<8469, 8469>>, <<8473, 8477>>, <<8484, 8484>>,
      <<8486, 8486>>, <<8488, 8488>>, <<8490, 8493>>, <<8495, 8505>>,
      <<8508, 8511>>, <<8517, 8521>>, <<8526, 8526>>, <<8528, 8585>>,
      <<9312, 9371>>, <<9450, 9471>>, <<10102, 10131>>, <<11264, 11492>>,
      <<11499, 11502>>, <<11506, 11507>>, <<11517, 11517>>, <<11520, 11557>>,
      <<11559, 11559>>, <<11565, 11565>>, <<11568, 11623>>, <<11631, 11631>>,
      <<11648, 11670>>, <<11680, 11686>>, <<11688, 11694>>, <<11696, 11702>>,
      <<11704, 11710>>, <<11712, 11718>>, <<11720, 11726>>, <<11728, 11734>>,
      <<11736, 11742>>, <<11823, 11823>>, <<12293, 12295>>, <<12321, 12329>>,
      <<12337, 12341>>, <<12344, 12348>>, <<12353, 12438>>, <<12445, 12447>>,
      <<12449, 12538>>, <<12540, 12543>>, <<12549, 12591>>, <<12593, 12686>>,
      <<12690, 12693>>, <<12704, 12735>>, <<12784, 12799>>, <<12832, 12841>>,
      <<12872, 12879>>, <<12881, 12895>>, <<12928, 12937>>, <<12977, 12991>>,
      <<13312, 19903>>, <<19968, 42124>>, <<42192, 42237>>, <<42240, 42508>>,
      <<42512, 42539>>, <<42560, 42606>>, <<42623, 42653>>, <<42656, 42735>>,
      <<42775, 42783>>, <<42786, 42888>>, <<42891, 42954>>, <<42960, 42961>>,
      <<42963, 42963>>, <<42965, 42969>>, <<42994, 43009>>, <<43011, 43013>>,
      <<43015, 43018>>, <<43020, 43042>>, <<43056, 43061>>, <<43072, 43123>>,
      <<43138, 43187>>, <<43216, 43225>>, <<43250, 43255>>, <<43259, 43259>>,
      <<43261, 43262>>, <<43264, 43301>>, <<43312, 43334>>, <<43360, 43388>>,
      <<43396, 43442>>, <<43471, 43481>>, <<43488, 43492>>, <<43494, 43518>>,
      <<43520, 43560>>, <<43584, 43586>>, <<43588, 43595>>, <<43600, 43609>>,
      <<43616, 43638>>, <<43642, 43642>>, <<43646, 43695>>, <<43697, 43697>>,
      <<43701, 43702>>, <<43705, 43709>>, <<43712, 43712>>, <<43714, 43714>>,
      <<43739, 43741>>, <<43744, 43754>>, <<43762, 43764>>, <<43777, 43782>>,
      <<43785, 43790>>, <<43793, 43798>>, <<43808, 43814>>, <<43816, 43822>>,
      <<43824, 43866>>, <<43868, 43881>>, <<43888, 44002>>, <<44016, 44025>>,
      <<44032, 55203>>, <<55216, 55238>>, <<55243, 55291>>, <<63744, 64109>>,
      <<64112, 64217>>, <<64256, 64262>>, <<64275, 64279>>, <<64285, 64285>>,
      <<64287, 64296>>, <<64298, 64310>>, <<64312, 64316>>, <<64318, 64318>>,
      <<64320, 64321>>, <<64323, 64324>>, <<64326, 64433>>, <<64467, 64829>>,
      <<64848, 64911>>, <<64914, 64967>>, <<65008, 65019>>, <<65136, 65140>>,
      <<65142, 65276>>, <<65296, 65305>>, <<65313, 65338>>, <<65345, 65370>>,
      <<65382, 65470>>, <<65474, 65479>>, <<65482, 65487>>, <<65490, 65495>>,
      <<65498, 65500>>, <<65536, 65547>>, <<65549, 65574>>, <<65576, 65594>>,
      <<65596, 65597>>, <<65599, 65613>>, <<65616, 65629>>, <<65664, 65786>>,
      <<65799, 65843>>, <<65856, 65912>>, <<65930, 65931>>, <<66176, 66204>>,
      <<66208, 66256>>, <<66273, 66299>>, <<66304, 66339>>, <<66349, 66378>>,
      <<66384, 66421>>, <<66432, 66461>>, <<66464, 66499>>, <<66504, 66511>>,
      <<66513, 66517>>, <<66560, 66717>>, <<66720, 66729>>, <<66736, 66771>>,
      <<66776, 66811>>, <<66816, 66855>>, <<66864, 66915>>, <<66928, 66938>>,
      <<66940, 66954>>, <<66956, 66962>>, <<66964, 66965>>, <<66967, 66977>>,
      <<66979, 66993>>, <<66995, 67001>>, <<67003, 67004>>, <<67072, 67382>>,
      <<67392, 67413>>, <<67424, 67431>>, <<67456, 67461>>, <<67463, 67504>>,
      <<67506, 67514>>, <<67584, 67589>>, <<67592, 67592>>, <<67594, 67637>>,
      <<67639, 67640>>, <<67644, 67644>>, <<67647, 67669>>, <<67672, 67702>>,
      <<67705, 67742>>, <<67751, 67759>>, <<67808, 67826>>, <<67828, 67829>>,
      <<67835, 67867>>, <<67872, 67897>>, <<67968, 68023>>, <<68028, 68047>>,
      <<68050, 68096>>, <<68112, 68115>>, <<68117, 68119>>, <<68121, 68149>>,
      <<68160, 68168>>, <<68192, 68222>>, <<68224, 68255>>, <<68288, 68295>>,
      <<68297, 68324>>, <<68331, 68335>>, <<68352, 68405>>, <<68416, 68437>>,
      <<68440, 68466>>, <<68472, 68497>>, <<68521, 68527>>, <<68608, 68680>>,
      <<68736, 68786>>, <<68800, 68850>>, <<68858, 68899>>, <<68912, 68921>>,
      <<69216, 69246>>, <<69248, 69289>>, <<69296, 69297>>, <<69376, 69415>>,
      <<69424, 69445>>, <<69457, 69460>>, <<69488, 69505>>, <<69552, 69579>>,
      <<69600, 69622>>, <<69635, 69687>>, <<69714, 69743>>, <<69745, 69746>>,
      <<69749, 69749>>, <<69763, 69807>>, <<69840, 69864>>, <<69872, 69881>>,
      <<69891, 69926>>, <<69942, 69951>>, <<69956, 69956>>, <<69959, 69959>>,
      <<69968, 70002>>, <<70006, 70006>>, <<70019, 70066>>, <<70081, 70084>>,
      <<70096, 70106>>, <<70108, 70108>>, <<70113, 70132>>, <<70144, 70161>>,
      <<70163, 70187>>, <<70272, 70278>>, <<70280, 70280>>, <<70282, 70285>>,
      <<70287, 70301>>, <<70303, 70312>>, <<70320, 70366>>, <<70384, 70393>>,
      <<70405, 70412>>, <<70415, 70416>>, <<70419, 70440>>, <<70442, 70448>>,
      <<70450, 70451>>, <<70453, 70457>>, <<70461, 70461>>, <<70480, 70480>>,
      <<70493, 70497>>, <<70656, 70708>>, <<70727, 70730>>, <<70736, 70745>>,
      <<70751, 70753>>, <<70784, 70831>>, <<70852, 70853>>, <<70855, 70855>>,
      <<70864, 70873>>, <<71040, 71086>>, <<71128, 71131>>, <<71168, 71215>>,
      <<71236, 71236>>, <<71248, 71257>>, <<71296, 71338>>, <<71352, 71352>>,
      <<71360, 71369>>, <<71424, 71450>>, <<71472, 71483>>, <<71488, 71494>>,
      <<71680, 71723>>, <<71840, 71922>>, <<71935, 71942>>, <<71945, 71945>>,
      <<71948, 71955>>, <<71957, 71958>>, <<71960, 71983>>, <<71999, 71999>>,
      <<72001, 72001>>, <<72016, 72025>>, <<72096, 72103>>, <<72106, 72144>>,
      <<72161, 72161>>, <<72163, 72163>>, <<72192, 72192>>, <<72203, 72242>>,
      <<72250, 72250>>, <<72272, 72272>>, <<72284, 72329>>, <<72349, 72349>>,
      <<72368, 72440>>, <<72704, 72712>>, <<72714, 72750>>, <<72768, 72768>>,
      <<72784, 72812>>, <<72818, 72847>>, <<72960, 72966>>, <<72968, 72969>>,
      <<72971, 73008>>, <<73030, 73030>>, <<73040, 73049>>, <<73056, 73061>>,
      <<73063, 73064>>, <<73066, 73097>>, <<73112, 73112>>, <<73120, 73129>>,
      <<73440, 73458>>, <<73648, 73648>>, <<73664, 73684>>, <<73728, 74649>>,
      <<74752, 74862>>, <<74880, 75075>>, <<77712, 77808>>, <<77824, 78894>>,
      <<82944, 83526>>, <<92160, 92728>>, <<92736, 92766>>, <<92768, 92777>>,
      <<92784, 92862>>, <<92864, 92873>>, <<92880, 92909>>, <<92928, 92975>>,
      <<92992, 92995>>, <<93008, 93017>>, <<93019, 93025>>, <<93027, 93047>>,
      <<93053, 93071>>, <<93760, 93846>>, <<93952, 94026>>, <<94032, 94032>>,
      <<94099, 94111>>, <<94176, 94177>>, <<94179, 94179>>,
      <<94208, 100343>>, <<100352, 101589>>, <<101632, 101640>>,
      <<110576, 110579>>, <<110581, 110587>>, <<110589, 110590>>,
      <<110592, 110882>>, <<110928, 110930>>, <<110948, 110951>>,
      <<110960, 111355>>, <<113664, 113770>>, <<113776, 113788>>,
      <<113792, 113800>>, <<113808, 113817>>, <<119520, 119539>>,
      <<119648, 119672>>, <<119808, 119892>>, <<119894, 119964>>,
      <<119966, 119967>>, <<119970, 119970>>, <<119973, 119974>>,
      <<119977, 119980>>, <<119982, 119993>>, <<119995, 119995>>,
      <<119997, 120003>>, <<120005, 120069>>, <<120071, 120074>>,
      <<120077, 120084>>, <<120086, 120092>>, <<120094, 120121>>,
      <<120123, 120126>>, <<120128, 120132>>, <<120134, 120134>>,
      <<120138, 120144>>, <<120146, 120485>>, <<120488, 120512>>,
      <<120514, 120538>>, <<120540, 120570>>, <<120572, 120596>>,
      <<120598, 120628>>, <<120630, 120654>>, <<120656, 120686>>,
      <<120688, 120712>>, <<120714, 120744>>, <<120746, 120770>>,
      <<120772, 120779>>, <<120782, 120831>>, <<122624, 122654>>,
      <<123136, 123180>>, <<123191, 123197>>, <<123200, 123209>>,
      <<123214, 123214>>, <<123536, 123565>>, <<123584, 123627>>,
      <<123632, 123641>>, <<124896, 124902>>, <<124904, 124907>>,
      <<124909, 124910>>, <<124912, 124926>>, <<124928, 125124>>,
      <<125127, 125135>>, <<125184, 125251>>, <<125259, 125259>>,
      <<125264, 125273>>, <<126065, 126123>>, <<126125, 126127>>,
      <<126129, 126132>>, <<126209, 126253>>, <<126255, 126269>>,
      <<126464, 126467>>, <<126469, 126495>>, <<126497, 126498>>,
      <<126500, 126500>>, <<126503, 126503>>, <<126505, 126514>>,
      <<126516, 126519>>, <<126521, 126521>>, <<126523, 126523>>,
      <<126530, 126530>>, <<126535, 126535>>, <<126537, 126537>>,
      <<126539, 126539>>, <<126541, 126543>>, <<126545, 126546>>,
      <<126548, 126548>>, <<126551, 126551>>, <<126553, 126553>>,
      <<126555, 126555>>, <<126557, 126557>>, <<126559, 126559>>,
      <<126561, 126562>>, <<126564, 126564>>, <<126567, 126570>>,
      <<126572, 126578>>, <<126580, 126583>>, <<126585, 126588>>,
      <<126590, 126590>>, <<126592, 126601>>, <<126603, 126619>>,
      <<126625, 126627>>, <<126629, 126633>>, <<126635, 126651>>,
      <<127232, 127244>>, <<130032, 130041>>, <<131072, 173791>>,
      <<173824, 177976>>, <<177984, 178205>>, <<178208, 183969>>,
      <<183984, 191456>>, <<194560, 195101>>, <<196608, 201546>>>>

\* \w matches the character c.
IsWord(c) ==
    IF IsAscii(c) THEN c \in AsciiWordChars
    ELSE LET cp == CodePoint(c)
         IN  \E i \in DOMAIN WordRanges :
                 WordRanges[i][1] <= cp /\ cp <= WordRanges[i][2]

\* s[i:j] for 0 <= i, with Python's clamping; i and j are Python (0-based) indices.
Slice(s, i, j) ==
    LET hi == IF j > Len(s) THEN Len(s) ELSE j
    IN  IF i >= hi THEN <<>> ELSE SubSeq(s, i + 1, hi)

RECURSIVE LStrip(_)
LStrip(s) ==
    IF s # <<>> /\ IsSpace(Head(s)) THEN LStrip(Tail(s)) ELSE s

RECURSIVE RStrip(_)
RStrip(s) ==
    IF s # <<>> /\ IsSpace(s[Len(s)]) THEN RStrip(SubSeq(s, 1, Len(s) - 1)) ELSE s

\* str.strip()
Strip(s) == RStrip(LStrip(s))

\* str.startswith / str.endswith
StartsWith(s, prefix) ==
    Len(s) >= Len(prefix) /\ SubSeq(s, 1, Len(prefix)) = prefix

EndsWith(s, suffix) ==
    Len(s) >= Len(suffix) /\ SubSeq(s, Len(s) - Len(suffix) + 1, Len(s)) = suffix

\* The length of the longest prefix of s whose characters all satisfy IsSpace
\* (space = TRUE) or all fail it (space = FALSE).
RECURSIVE Run(_, _)
Run(s, space) ==
    IF s # <<>> /\ (IsSpace(Head(s)) = space) THEN 1 + Run(Tail(s), space) ELSE 0

\* str.split(maxsplit=1): the first whitespace-delimited word and, when anything
\* but whitespace follows it, the rest of the string.
SplitMax1(s) ==
    LET t == LStrip(s)
        n == Run(t, FALSE)
        word == SubSeq(t, 1, n)
        rest == LStrip(SubSeq(t, n + 1, Len(t)))
    IN  IF t = <<>> THEN <<>>
        ELSE IF rest = <<>> THEN <<word>>
        ELSE <<word, rest>>

-----------------------------------------------------------------------------
(* _parse_attributes: re.findall of  word, optional spaces, =, optional     *)
(* spaces, a quote, any characters but that quote (or a newline), and the  *)
(* same quote again.                                                       *)

\* The first index >= i of t whose character fails the test (Len(t) + 1 if none).
RECURSIVE SkipWord(_, _)
SkipWord(t, i) ==
    IF i <= Len(t) /\ IsWord(t[i]) THEN SkipWord(t, i + 1) ELSE i

RECURSIVE SkipSpace(_, _)
SkipSpace(t, i) ==
    IF i <= Len(t) /\ IsSpace(t[i]) THEN SkipSpace(t, i + 1) ELSE i

\* '.' matches anything but a newline; (?!\2) excludes the opening quote.
RECURSIVE SkipValue(_, _, _)
SkipValue(t, i, q) ==
    IF i <= Len(t) /\ t[i] # q /\ t[i] # "\n" THEN SkipValue(t, i + 1, q) ELSE i

\* One attempt of the pattern at index i of t.
MatchAttr(t, i) ==
    LET j == SkipWord(t, i)           \* (\w+)
        k == SkipSpace(t, j)          \* \s*
        m == SkipSpace(t, k + 1)      \* = \s*
        v == SkipValue(t, m + 1, t[m])
        fail == [ok |-> FALSE, key |-> <<>>, value |-> <<>>, end |-> i]
    IN  IF j = i THEN fail
        ELSE IF k > Len(t) \/ t[k] # "=" THEN fail
        ELSE IF m > Len(t) \/ t[m] \notin {"'", "\""} THEN fail
        ELSE IF v > Len(t) \/ t[v] # t[m] THEN fail
        ELSE [ok |-> TRUE, key |-> SubSeq(t, i, j - 1),
              value |-> SubSeq(t, m + 1, v - 1), end |-> v + 1]

\* attributes[key] = value
SetItem(d, key, value) ==
    [x \in DOMAIN d \cup {key} |-> IF x = key THEN value ELSE d[x]]

\* The empty dict.
EmptyDict == [x \in {} |-> <<>>]

RECURSIVE FindAll(_, _, _)
FindAll(t, i, acc) ==
    IF i > Len(t) THEN acc
    ELSE LET m == MatchAttr(t, i)
         IN  IF m.ok THEN FindAll(t, m.end, SetItem(acc, m.key, m.value))
             ELSE FindAll(t, i + 1, acc)

_parse_attributes(attr_text) ==
    IF attr_text = <<>> THEN EmptyDict ELSE FindAll(attr_text, 1, EmptyDict)

-----------------------------------------------------------------------------
(* User callables *)

\* The callables that raise an exception whenever they are invoked.
RaisingCallables == {"h_raises", "s_raises", "start_raises", "complete_raises",
                     "u_raises", "eh_raises"}

FnRaises(fn) == fn \in RaisingCallables

\* The values that are not callable: None, and not_callable, which stands for
\* any other value that is no function and is true in a condition (a number
\* but 0, a string but the empty one).
NonCallables == {None, "not_callable"}

\* callable(value)
callable(value) == value \notin NonCallables

\* One invocation of a user callback, as the callback sees it.  tag_name is the
\* name of the tag the callback was registered for (an argument of the start and
\* complete callbacks; recorded for the others to tell which tag they serve).
Call(kind, fn, tag_name, attributes, content, char) ==
    [kind |-> kind, fn |-> fn, tag_name |-> tag_name, attributes |-> attributes,
     content |-> content, char |-> char]

\* self after fn was invoked: the invocation is logged, with the number of
\* contexts on the tag stack at that moment; if fn raises, the enclosing try
\* block's TagProcessorError is in flight.
Invoke(self, call, error) ==
    [self EXCEPT !.calls = Append(@, call),
                 !.depths = Append(@, Len(self.tag_stack)),
                 !.exc = IF FnRaises(call.fn) THEN error ELSE @]

TagProcessorError(kind, message, ctx) ==
    [kind |-> kind, message |-> message, ctx |-> ctx]

\* An exception is in flight.
Failed(self) == self.exc.kind # "none"

-----------------------------------------------------------------------------
(* The scanner *)

_process_untagged_content(self, content) ==
    LET trimmed_content == Strip(content)
    IN  IF trimmed_content # <<>> /\ self.untagged_content_handler # None
        THEN Invoke(self,
                 Call("untagged", self.untagged_content_handler, <<>>, EmptyDict,
                      trimmed_content, ""),
                 TagProcessorError("HandlerFailure",
                     "Error in untagged content handler",
                     [content_preview |->
                         Slice(trimmed_content, 0, 100)
                             \o (IF Len(trimmed_content) > 100
                                 THEN <<".", ".", ".">> ELSE <<>>)]))
        ELSE self

\* Mutant: only the innermost open tag is compared.
has_parent_top_only(self, tag_name) ==
    self.tag_stack # <<>> /\ self.tag_stack[Len(self.tag_stack)].name = tag_name

\* any(context.name == tag_name for context in self.tag_stack)
has_parent_of_same_type(self, tag_name) ==
    \E i \in DOMAIN self.tag_stack : self.tag_stack[i].name = tag_name

\* Mutant: an opening tag of an unregistered name is an error (a registered
\* one is pushed as it is).
_handle_opening_tag_strict(self, tag_name, attributes) ==
    IF tag_name \notin DOMAIN self.tag_configs
    THEN [self EXCEPT !.exc =
             TagProcessorError("UnknownTag", "Unregistered tag type",
                 [tag_name |-> tag_name])]
    ELSE [self EXCEPT !.tag_stack =
             Append(@, [name |-> tag_name, attributes |-> attributes,
                        content |-> <<>>, parent |-> Len(self.tag_stack),
                        config |-> self.tag_configs[tag_name]])]

\* Mutant: every context is pushed without a parent.
_handle_opening_tag_without_parent(self, tag_name, attributes) ==
    IF tag_name \notin DOMAIN self.tag_configs THEN self
    ELSE
    LET config == self.tag_configs[tag_name]
        context == [name |-> tag_name, attributes |-> attributes,
                    content |-> <<>>, parent |-> 0, config |-> config]
        started ==
            IF config.on_tag_start_callback # None
            THEN Invoke(self,
                     Call("on_tag_start", config.on_tag_start_callback, tag_name,
                          attributes, <<>>, ""),
                     TagProcessorError("HandlerFailure",
                         "Error in on_tag_start_callback",
                         [tag_name |-> tag_name, attributes |-> attributes]))
            ELSE self
    IN  IF ~config.allows_nested_of_same_type
           /\ has_parent_of_same_type(self, tag_name)
        THEN [self EXCEPT !.exc =
                 TagProcessorError("NestedTagViolation",
                     "Tag cannot be nested within itself",
                     [tag_name |-> tag_name, attributes |-> attributes])]
        ELSE IF Failed(started) THEN started
        ELSE [started EXCEPT !.tag_stack = Append(@, context)]

_handle_opening_tag(self, tag_name, attributes) ==
    IF tag_name \notin DOMAIN self.tag_configs THEN self
    ELSE
    LET config == self.tag_configs[tag_name]
        context == [name |-> tag_name, attributes |-> attributes,
                    content |-> <<>>, parent |-> Len(self.tag_stack),
                    config |-> config]
        started ==
            IF config.on_tag_start_callback # None
            THEN Invoke(self,
                     Call("on_tag_start", config.on_tag_start_callback, tag_name,
                          attributes, <<>>, ""),
                     TagProcessorError("HandlerFailure",
                         "Error in on_tag_start_callback",
                         [tag_name |-> tag_name, attributes |-> attributes]))
            ELSE self
    IN  IF ~config.allows_nested_of_same_type
           /\ has_parent_of_same_type(self, tag_name)
        THEN [self EXCEPT !.exc =
                 TagProcessorError("NestedTagViolation",
                     "Tag cannot be nested within itself",
                     [tag_name |-> tag_name, attributes |-> attributes])]
        ELSE IF Failed(started) THEN started
        ELSE [started EXCEPT !.tag_stack = Append(@, context)]

_handle_self_closing_tag(self, tag_name, attributes) ==
    IF tag_name \notin DOMAIN self.tag_configs THEN self
    ELSE
    LET config == self.tag_configs[tag_name]
        ctx == [tag_name |-> tag_name, attributes |-> attributes]
        started ==
            IF config.on_tag_start_callback # None
            THEN Invoke(self,
                     Call("on_tag_start", config.on_tag_start_callback, tag_name,
                          attributes, <<>>, ""),
                     TagProcessorError("HandlerFailure",
                         "Error in on_tag_start_callback", ctx))
            ELSE self
        handled ==
            Invoke(started,
                Call("handler", config.handler, tag_name, attributes, <<>>, ""),
                TagProcessorError("HandlerFailure", "Error in tag handler", ctx))
        completed ==
            IF config.on_tag_complete_callback # None
            THEN Invoke(handled,
                     Call("on_tag_complete", config.on_tag_complete_callback,
                          tag_name, attributes, <<>>, ""),
                     TagProcessorError("HandlerFailure",
                         "Error in on_tag_complete_callback", ctx))
            ELSE handled
    IN  IF Failed(started) THEN started
        ELSE IF Failed(handled) THEN handled
        ELSE completed

\* Mutant: the outermost open tag is taken for the innermost.
last_tag_first(self) == self.tag_stack[1]

\* self.tag_stack[-1]
last_tag_of(self) == self.tag_stack[Len(self.tag_stack)]

\* Mutant: a closing tag that matches no open tag is skipped silently.
_handle_closing_tag_lenient(self, tag_name) ==
    IF self.tag_stack = <<>> \/ last_tag_of(self).name # tag_name
    THEN self
    ELSE LET context == last_tag_of(self)
         IN  Invoke([self EXCEPT !.tag_stack = SubSeq(@, 1, Len(@) - 1)],
                 Call("handler", context.config.handler, tag_name,
                      context.attributes, context.content, ""),
                 TagProcessorError("HandlerFailure", "Error in tag handler",
                     [tag_name |-> tag_name, attributes |-> context.attributes]))

\* Mutant: the configuration of the closed tag is looked up in the registry
\* when the tag closes.
_handle_closing_tag_resolves_again(self, tag_name) ==
    IF self.tag_stack = <<>>
    THEN [self EXCEPT !.exc =
             TagProcessorError("UnexpectedClosingTag",
                 "Found closing tag but no opening tags in stack",
                 [tag_name |-> tag_name])]
    ELSE
    LET context == last_tag_of(self)
        config == self.tag_configs[tag_name]
        ctx == [tag_name |-> tag_name, attributes |-> context.attributes]
        popped == [self EXCEPT !.tag_stack = SubSeq(@, 1, Len(@) - 1)]
        handled ==
            Invoke(popped,
                Call("handler", config.handler, tag_name, context.attributes,
                     context.content, ""),
                TagProcessorError("HandlerFailure", "Error in tag handler", ctx))
        completed ==
            IF config.on_tag_complete_callback # None
            THEN Invoke(handled,
                     Call("on_tag_complete", config.on_tag_complete_callback,
                          tag_name, context.attributes, context.content, ""),
                     TagProcessorError("HandlerFailure",
                         "Error in on_tag_complete_callback", ctx))
            ELSE handled
    IN  IF context.name = tag_name
        THEN IF Failed(handled) THEN handled ELSE completed
        ELSE [self EXCEPT !.exc =
                 TagProcessorError("MismatchedClosingTag",
                     "Mismatched closing tag",
                     [expected |-> context.name, received |-> tag_name])]

\* Mutant: the handler and the completion callback are invoked before the
\* context is popped.
_handle_closing_tag_pops_last(self, tag_name) ==
    IF self.tag_stack = <<>>
    THEN [self EXCEPT !.exc =
             TagProcessorError("UnexpectedClosingTag",
                 "Found closing tag but no opening tags in stack",
                 [tag_name |-> tag_name])]
    ELSE
    LET context == last_tag_of(self)
        ctx == [tag_name |-> tag_name, attributes |-> context.attributes]
        handled ==
            Invoke(self,
                Call("handler", context.config.handler, tag_name,
                     context.attributes, context.content, ""),
                TagProcessorError("HandlerFailure", "Error in tag handler", ctx))
        completed ==
            IF context.config.on_tag_complete_callback # None
            THEN Invoke(handled,
                     Call("on_tag_complete",
                          context.config.on_tag_complete_callback, tag_name,
                          context.attributes, context.content, ""),
                     TagProcessorError("HandlerFailure",
                         "Error in on_tag_complete_callback", ctx))
            ELSE handled
        done == IF Failed(handled) THEN handled ELSE completed
    IN  IF context.name = tag_name
        THEN [done EXCEPT !.tag_stack = SubSeq(@, 1, Len(@) - 1)]
        ELSE [self EXCEPT !.exc =
                 TagProcessorError("MismatchedClosingTag",
                     "Mismatched closing tag",
                     [expected |-> context.name, received |-> tag_name])]

\* Mutant: the completion callback is invoked although the handler raised.
_handle_closing_tag_completes_anyway(self, tag_name) ==
    IF self.tag_stack = <<>>
    THEN [self EXCEPT !.exc =
             TagProcessorError("UnexpectedClosingTag",
                 "Found closing tag but no opening tags in stack",
                 [tag_name |-> tag_name])]
    ELSE
    LET context == last_tag_of(self)
        ctx == [tag_name |-> tag_name, attributes |-> context.attributes]
        popped == [self EXCEPT !.tag_stack = SubSeq(@, 1, Len(@) - 1)]
        handled ==
            Invoke(popped,
                Call("handler", context.config.handler, tag_name,
                     context.attributes, context.content, ""),
                TagProcessorError("HandlerFailure", "Error in tag handler", ctx))
        completed ==
            IF context.config.on_tag_complete_callback # None
            THEN [handled EXCEPT !.calls =
                     Append(@, Call("on_tag_complete",
                                    context.config.on_tag_complete_callback,
                                    tag_name, context.attributes,
                                    context.content, "")),
                                 !.depths = Append(@, Len(popped.tag_stack))]
            ELSE handled
    IN  IF context.name = tag_name
        THEN completed
        ELSE [self EXCEPT !.exc =
                 TagProcessorError("MismatchedClosingTag",
                     "Mismatched closing tag",
                     [expected |-> context.name, received |-> tag_name])]

\* Mutant: a closing tag of any name closes the innermost open tag.
_handle_closing_tag_closes_top(self, tag_name) ==
    IF self.tag_stack = <<>>
    THEN [self EXCEPT !.exc =
             TagProcessorError("UnexpectedClosingTag",
                 "Found closing tag but no opening tags in stack",
                 [tag_name |-> tag_name])]
    ELSE
    LET context == last_tag_of(self)
        ctx == [tag_name |-> context.name, attributes |-> context.attributes]
        popped == [self EXCEPT !.tag_stack = SubSeq(@, 1, Len(@) - 1)]
        handled ==
            Invoke(popped,
                Call("handler", context.config.handler, context.name,
                     context.attributes, context.content, ""),
                TagProcessorError("HandlerFailure", "Error in tag handler", ctx))
        completed ==
            IF context.config.on_tag_complete_callback # None
            THEN Invoke(handled,
                     Call("on_tag_complete",
                          context.config.on_tag_complete_callback, context.name,
                          context.attributes, context.content, ""),
                     TagProcessorError("HandlerFailure",
                         "Error in on_tag_complete_callback", ctx))
            ELSE handled
    IN  IF Failed(handled) THEN handled ELSE completed

_handle_closing_tag(self, tag_name) ==
    IF self.tag_stack = <<>>
    THEN [self EXCEPT !.exc =
             TagProcessorError("UnexpectedClosingTag",
                 "Found closing tag but no opening tags in stack",
                 [tag_name |-> tag_name])]
    ELSE
    LET last_tag == last_tag_of(self)
        context == self.tag_stack[Len(self.tag_stack)]   \* self.tag_stack.pop()
        content == context.content
        ctx == [tag_name |-> tag_name, attributes |-> context.attributes]
        popped == [self EXCEPT !.tag_stack = SubSeq(@, 1, Len(@) - 1)]
        handled ==
            Invoke(popped,
                Call("handler", context.config.handler, tag_name,
                     context.attributes, content, ""),
                TagProcessorError("HandlerFailure", "Error in tag handler", ctx))
        completed ==
            IF context.config.on_tag_complete_callback # None
            THEN Invoke(handled,
                     Call("on_tag_complete",
                          context.config.on_tag_complete_callback, tag_name,
                          context.attributes, content, ""),
                     TagProcessorError("HandlerFailure",
                         "Error in on_tag_complete_callback", ctx))
            ELSE handled
    IN  IF last_tag.name = tag_name
        THEN IF Failed(handled) THEN handled ELSE completed
        ELSE [self EXCEPT !.exc =
                 TagProcessorError("MismatchedClosingTag",
                     "Mismatched closing tag",
                     [expected |-> last_tag.name, received |-> tag_name])]

\* parts[0] of an empty split raises IndexError.
IndexError == [kind |-> "IndexError", message |-> "list index out of range",
               ctx |-> EmptyDict]

_process_complete_tag(self, raw_tag) ==
    LET tag_content == Strip(raw_tag)
        self_closing == SplitMax1(Strip(Slice(tag_content, 1, Len(tag_content) - 2)))
        opening == SplitMax1(Strip(Slice(tag_content, 1, Len(tag_content) - 1)))
        attr_text(parts) == IF Len(parts) > 1 THEN parts[2] ELSE <<>>
    IN  IF StartsWith(tag_content, <<"<", "/">>)
        THEN _handle_closing_tag(self,
                 Strip(Slice(tag_content, 2, Len(tag_content) - 1)))
        ELSE IF EndsWith(tag_content, <<"/", ">">>)
        THEN IF self_closing = <<>> THEN [self EXCEPT !.exc = IndexError]
             ELSE _handle_self_closing_tag(self, self_closing[1],
                      _parse_attributes(attr_text(self_closing)))
        ELSE IF opening = <<>> THEN [self EXCEPT !.exc = IndexError]
             ELSE _handle_opening_tag(self, opening[1],
                      _parse_attributes(attr_text(opening)))

\* Lines 338-352 of _process_char: the quote and brace-depth tracking.
\* Mutant: '}' decrements the brace depth without a floor.
track_json_without_floor(self, char) ==
    LET quoted ==
            IF char \in {"\"", "'"} /\ self.json_depth > 0
            THEN IF ~self.in_quotes
                 THEN [self EXCEPT !.in_quotes = TRUE, !.quote_char = char]
                 ELSE IF char = self.quote_char
                 THEN [self EXCEPT !.in_quotes = FALSE, !.quote_char = ""]
                 ELSE self
            ELSE self
    IN  IF ~quoted.in_quotes
        THEN IF char = "{"
             THEN [quoted EXCEPT !.json_depth = @ + 1]
             ELSE IF char = "}"
             THEN [quoted EXCEPT !.json_depth = @ - 1]
             ELSE quoted
        ELSE quoted

track_json(self, char) ==
    LET quoted ==
            IF char \in {"\"", "'"} /\ self.json_depth > 0
            THEN IF ~self.in_quotes
                 THEN [self EXCEPT !.in_quotes = TRUE, !.quote_char = char]
                 ELSE IF char = self.quote_char
                 THEN [self EXCEPT !.in_quotes = FALSE, !.quote_char = ""]
                 ELSE self
            ELSE self
    IN  IF ~quoted.in_quotes
        THEN IF char = "{"
             THEN [quoted EXCEPT !.json_depth = @ + 1]
             ELSE IF char = "}"
             THEN [quoted EXCEPT !.json_depth = IF @ - 1 > 0 THEN @ - 1 ELSE 0]
             ELSE quoted
        ELSE quoted

\* Lines 389-393 of _process_char: the threshold flush of untagged content,
\* reached unless the lines before it raised.
auto_process(self) ==
    IF Failed(self) THEN self
    ELSE IF self.auto_process_untagged
            /\ Len(self.untagged_content) > self.auto_process_threshold
    THEN LET flushed == _process_untagged_content(self, self.untagged_content)
         IN  IF Failed(flushed) THEN flushed
             ELSE [flushed EXCEPT !.untagged_content = <<>>]
    ELSE self

\* Mutant: the brace depth and the quotes are not consulted.
is_tag_start_any_depth(self, char) == char = "<"

\* char == '<' and not self.in_quotes and self.json_depth == 0
is_tag_start(self, char) ==
    char = "<" /\ ~self.in_quotes /\ self.json_depth = 0

\* Lines 361-362 of _process_char, reached unless the flush before them raised.
start_tag(self, char) ==
    IF Failed(self) THEN self
    ELSE [self EXCEPT !.untagged_content = <<>>, !.in_tag = TRUE,
                      !.current_tag = <<char>>]

\* Lines 355-362 of _process_char: a tag token starts; pending untagged
\* content is flushed first.
\* Mutant: a tag token starts over the pending untagged content, which is
\* neither delivered nor cleared.
handle_tag_marker_keeps_untagged(self, char) ==
    [self EXCEPT !.in_tag = TRUE, !.current_tag = <<char>>]

handle_tag_marker(self, char) ==
    start_tag(IF self.untagged_content # <<>>
              THEN _process_untagged_content(self, self.untagged_content)
              ELSE self,
              char)

\* Lines 369-370 of _process_char, reached unless _process_complete_tag raised.
end_tag(self) ==
    IF Failed(self) THEN self
    ELSE [self EXCEPT !.in_tag = FALSE, !.current_tag = <<>>]

\* Lines 365-370 of _process_char: a character of a tag token; '>' completes it.
inside_tag(self, char) ==
    LET appended == [self EXCEPT !.current_tag = Append(@, char)]
    IN  IF char = ">"
        THEN end_tag(_process_complete_tag(appended, appended.current_tag))
        ELSE appended

\* Lines 371-387 of _process_char: a character of content.
\* Mutant: the streaming callback is invoked before the character is
\* appended, so that a callback that raises keeps it out of the content.
inside_content_calls_first(self, char) ==
    IF self.tag_stack # <<>>
    THEN LET top == Len(self.tag_stack)
             context == self.tag_stack[top]
             called ==
                 IF context.config.streaming_callback # None
                 THEN Invoke(self,
                          Call("streaming", context.config.streaming_callback,
                               context.name, context.attributes, <<>>, char),
                          TagProcessorError("HandlerFailure",
                              "Error in streaming callback",
                              [tag_name |-> context.name, char |-> char]))
                 ELSE self
         IN  IF Failed(called) THEN called
             ELSE [called EXCEPT !.tag_stack[top].content = Append(@, char)]
    ELSE [self EXCEPT !.untagged_content = Append(@, char)]

inside_content(self, char) ==
    IF self.tag_stack # <<>>
    THEN LET top == Len(self.tag_stack)
             context == self.tag_stack[top]
             collected == [self EXCEPT !.tag_stack[top].content = Append(@, char)]
         IN  IF context.config.streaming_callback # None
             THEN Invoke(collected,
                      Call("streaming", context.config.streaming_callback,
                           context.name, context.attributes, <<>>, char),
                      TagProcessorError("HandlerFailure",
                          "Error in streaming callback",
                          [tag_name |-> context.name, char |-> char]))
             ELSE collected
    ELSE [self EXCEPT !.untagged_content = Append(@, char)]

\* Lines 354-393 of _process_char: what follows the quote and depth tracking.
handle_char(self, char) ==
    IF is_tag_start(self, char)
    THEN handle_tag_marker(self, char)
    ELSE auto_process(IF self.in_tag THEN inside_tag(self, char)
                      ELSE inside_content(self, char))

_process_char(self, char) == handle_char(track_json(self, char), char)

\* The loop of _process_token_internal over token[i..]: an exception ends it.
\* n counts the characters handed to _process_char.
RECURSIVE process_chars(_, _, _)
process_chars(self, token, i) ==
    IF i > Len(token) \/ Failed(self) THEN self
    ELSE process_chars(
             [_process_char(self, token[i]) EXCEPT !.n = @ + 1], token, i + 1)

_process_token_internal(self, token) == process_chars(self, token, 1)

\* The exception a callable of RaisingCallables raises.
Boom == [kind |-> "Boom", message |-> "boom", ctx |-> EmptyDict]

\* The exception of calling a value that is not callable; its message names
\* the type of the value.
TypeError(message) == [kind |-> "TypeError", message |-> message, ctx |-> EmptyDict]

\* The decorator's except clauses, applied to the processor as the decorated
\* method left it: the exception is caught and, when self.error_handler is
\* set, given to it.  The call of self.error_handler is not protected: the
\* exception it raises, or the TypeError of calling a value that is not
\* callable, leaves the decorated method.
error_handler(self) ==
    LET e == IF self.exc.kind = "IndexError"
             THEN TagProcessorError("Unexpected",
                      "Unexpected error in process_token", EmptyDict)
             ELSE self.exc
        handled == [self EXCEPT !.exc = NoExc, !.caught = Append(@, e)]
    IN  IF ~Failed(self) THEN self
        ELSE IF self.error_handler = None THEN handled
        ELSE IF ~callable(self.error_handler)
        THEN [handled EXCEPT !.exc =
                 TypeError("'NotCallable' object is not callable")]
        ELSE [handled EXCEPT !.delivered = Append(@, e),
                             !.exc = IF FnRaises(self.error_handler)
                                     THEN Boom ELSE NoExc]

\* The count of the characters the call scanned is logged.
log_scanned(self) == [self EXCEPT !.scanned = Append(@, self.n)]

\* Mutant: a blank token is scanned like any other.
process_token_scans_blank(self, token) ==
    log_scanned(error_handler(
        _process_token_internal([self EXCEPT !.n = 0], token)))

process_token(self, token) ==
    LET entered == [self EXCEPT !.n = 0]
    IN  log_scanned(error_handler(
            IF token = <<>> \/ Strip(token) = <<>>
            THEN entered
            ELSE _process_token_internal(entered, token)))

RECURSIVE process_tokens(_, _)
process_tokens(self, tokens) ==
    IF tokens = <<>> \/ Failed(self) THEN self
    ELSE process_tokens(process_token(self, Head(tokens)), Tail(tokens))

process_string(self, content) == process_token(self, content)

\* Mutant: the brace depth and the quote state survive a reset.
reset_keeps_json_state(self) ==
    [self EXCEPT !.tag_stack = <<>>, !.partial_buffer = <<>>,
                 !.untagged_content = <<>>, !.in_tag = FALSE,
                 !.current_tag = <<>>]

\* Mutant: the registrations are dropped with the scanning state.
reset_drops_registrations(self) ==
    [self EXCEPT !.tag_stack = <<>>, !.partial_buffer = <<>>,
                 !.untagged_content = <<>>, !.in_tag = FALSE,
                 !.current_tag = <<>>, !.json_depth = 0, !.in_quotes = FALSE,
                 !.quote_char = "", !.tag_configs = EmptyDict]

reset(self) ==
    [self EXCEPT !.tag_stack = <<>>, !.partial_buffer = <<>>,
                 !.untagged_content = <<>>, !.in_tag = FALSE,
                 !.current_tag = <<>>, !.json_depth = 0, !.in_quotes = FALSE,
                 !.quote_char = ""]

\* flush is not decorated: an exception of the untagged handler leaves it.
flush(self) ==
    IF self.untagged_content # <<>>
    THEN LET flushed == _process_untagged_content(self, self.untagged_content)
         IN  IF Failed(flushed) THEN flushed
             ELSE [flushed EXCEPT !.untagged_content = <<>>]
    ELSE self

\* The ValueError that __post_init__ raises.
ValueError(message) == [kind |-> "ValueError", message |-> message,
                        ctx |-> EmptyDict]

\* The dataclass with its fields in their order: the new TagConfig, or the
\* ValueError that __post_init__ raises in its place.
TagConfig(handler, stream_content, process_nested, streaming_callback, allows_nested_of_same_type, on_tag_start_callback, on_tag_complete_callback) ==
    IF ~callable(handler)
    THEN ValueError("Handler must be callable")
    ELSE IF streaming_callback # None /\ ~callable(streaming_callback)
    THEN ValueError("Streaming callback must be callable")
    ELSE IF on_tag_start_callback # None /\ ~callable(on_tag_start_callback)
    THEN ValueError("Tag start callback must be callable")
    ELSE IF on_tag_complete_callback # None /\ ~callable(on_tag_complete_callback)
    THEN ValueError("Tag complete callback must be callable")
    ELSE [handler |-> handler, stream_content |-> stream_content,
          process_nested |-> process_nested,
          streaming_callback |-> streaming_callback,
          allows_nested_of_same_type |-> allows_nested_of_same_type,
          on_tag_start_callback |-> on_tag_start_callback,
          on_tag_complete_callback |-> on_tag_complete_callback]

\* The construction raised instead of giving a TagConfig.
IsValueError(config) == "kind" \in DOMAIN config

\* The handler and the keyword arguments of the register_handler call that
\* stores the configuration config.
ArgumentsFor(config) ==
    [handler |-> config.handler, allow_nested |-> config.process_nested,
     allows_nested_of_same_type |-> config.allows_nested_of_same_type,
     stream_content |-> config.stream_content,
     streaming_callback |-> config.streaming_callback,
     on_tag_start_callback |-> config.on_tag_start_callback,
     on_tag_complete_callback |-> config.on_tag_complete_callback]

\* What self.tag_configs[tag_name] = TagConfig(...) leaves: the configuration
\* stored, or the ValueError of the construction in flight.
store_config(self, tag_name, config) ==
    IF IsValueError(config) THEN [self EXCEPT !.exc = config]
    ELSE [self EXCEPT !.tag_configs =
             [t \in DOMAIN @ \cup {tag_name} |->
                 IF t = tag_name THEN config ELSE @[t]]]

\* args holds the handler and the keyword arguments of the call.
register_handler(self, tag_name, args) ==
    IF tag_name = <<>>
    THEN [self EXCEPT !.exc =
             TagProcessorError("Validation", "Tag name must be a non-empty string",
                 [tag_name |-> tag_name])]
    ELSE IF ~callable(args.handler)
    THEN [self EXCEPT !.exc =
             TagProcessorError("Validation", "Handler must be callable",
                 [tag_name |-> tag_name])]
    ELSE store_config(self, tag_name,
             TagConfig(args.handler, args.stream_content, args.allow_nested,
                       args.streaming_callback, args.allows_nested_of_same_type,
                       args.on_tag_start_callback, args.on_tag_complete_callback))

set_untagged_content_handler(self, handler) ==
    IF handler # None /\ ~callable(handler)
    THEN [self EXCEPT !.exc =
             TagProcessorError("Validation",
                 "Untagged content handler must be callable", EmptyDict)]
    ELSE [self EXCEPT !.untagged_content_handler = handler]

set_auto_process_threshold(self, threshold) ==
    IF threshold < 1
    THEN [self EXCEPT !.exc =
             TagProcessorError("Validation", "Threshold must be a positive integer",
                 [threshold |-> threshold])]
    ELSE [self EXCEPT !.auto_process_threshold = threshold]

\* FluffyTagProcessor(error_handler=..., auto_process_untagged=...,
\* auto_process_threshold=...)
__init__(error_handler_arg, auto_process_untagged_arg, auto_process_threshold_arg) ==
    [tag_configs |-> EmptyDict, tag_stack |-> <<>>, partial_buffer |-> <<>>,
     untagged_content |-> <<>>, in_tag |-> FALSE, current_tag |-> <<>>,
     json_depth |-> 0, in_quotes |-> FALSE, quote_char |-> "",
     untagged_content_handler |-> None, error_handler |-> error_handler_arg,
     auto_process_untagged |-> auto_process_untagged_arg,
     auto_process_threshold |-> auto_process_threshold_arg,
     calls |-> <<>>, depths |-> <<>>, caught |-> <<>>, delivered |-> <<>>,
     exc |-> NoExc, scanned |-> <<>>, n |-> 0]

-----------------------------------------------------------------------------
(* Inputs *)

\* Calls of the feed operations, flush and reset explored from a new processor.
MaxFeeds == 3

\* Calls of the registration and configuration operations explored.
MaxSetup == 2

\* The default of auto_process_threshold.
DefaultThreshold == 20

\* The thresholds given to set_auto_process_threshold: small enough for the
\* fed tokens to exceed.
Thresholds == {2}

Plain == TagConfig("h1", TRUE, TRUE, None, FALSE, None, None)
Full == TagConfig("h2", TRUE, TRUE, "s1", TRUE, "start1", "complete1")
HandlerRaises == TagConfig("h_raises", TRUE, TRUE, "s1", FALSE, "start1", "complete1")
StartRaises == TagConfig("h1", TRUE, TRUE, None, FALSE, "start_raises", None)
StreamingRaises == TagConfig("h1", TRUE, TRUE, "s_raises", FALSE, None, None)
CompleteRaises == TagConfig("h1", TRUE, TRUE, None, FALSE, None, "complete_raises")

\* {"x": "<not-a-tag>"}
JsonBody ==
    <<"{", "\"", "x", "\"", ":", " ", "\"", "<", "n", "o", "t", "-", "a", "-",
      "t", "a", "g", ">", "\"", "}">>

\* The register_handler calls explored: <<tag name, the configuration that
\* the handler and the keyword arguments of the call make>>.
Registrations ==
    {<<(<<"a">>), Plain>>, <<(<<"a">>), Full>>,
     <<(<<"b">>), Plain>>, <<(<<"b">>), HandlerRaises>>,
     <<(<<"b">>), StartRaises>>, <<(<<"b">>), StreamingRaises>>,
     <<(<<"b">>), CompleteRaises>>}

UntaggedHandlers == {"u1", "u_raises"}

\* The constructor calls explored: <<error_handler, auto_process_untagged>>.
Constructions ==
    {<<None, TRUE>>, <<"eh", TRUE>>, <<"eh", FALSE>>, <<"eh_raises", TRUE>>,
     <<"not_callable", TRUE>>}

\* The tokens fed: single characters and whole fragments of markup.
Tokens ==
    {<<"<">>, <<">">>, <<"{">>, <<"}">>, <<"\"">>, <<" ">>,
     <<"<", "a", ">">>, <<"<", "/", "a", ">">>,
     <<"<", "b", ">">>, <<"<", "/", "b", ">">>,
     <<"<", "a", "/", ">">>,
     <<"<", "a", " ", "k", "=", "'", "v", "'", ">">>,
     <<"x", " ", "y">>,
     <<"<", "a", ">", "<", "b", ">", "x", "<", "/", "b", ">", "<", "/", "a", ">">>,
     JsonBody}

\* The token lists given to process_tokens.
TokenLists ==
    {<<(<<"<", "a", ">">>), (<<"x">>), (<<"<", "/", "a", ">">>)>>,
     <<(<<"<">>), (<<"a">>), (<<">">>)>>}

\* The strings given to process_string.
Strings == {<<"<", "a", ">", "x", " ", "y", "<", "/", "a", ">">>}

-----------------------------------------------------------------------------
(* The state machine *)

\* The processor as a record of its fields, with an empty log.
Self ==
    [tag_configs |-> tag_configs, tag_stack |-> tag_stack,
     partial_buffer |-> partial_buffer, untagged_content |-> untagged_content,
     in_tag |-> in_tag, current_tag |-> current_tag, json_depth |-> json_depth,
     in_quotes |-> in_quotes, quote_char |-> quote_char,
     untagged_content_handler |-> untagged_content_handler,
     error_handler |-> error_handler_fn,
     auto_process_untagged |-> auto_process_untagged,
     auto_process_threshold |-> auto_process_threshold,
     calls |-> <<>>, depths |-> <<>>, caught |-> <<>>, delivered |-> <<>>,
     exc |-> NoExc, scanned |-> <<>>, n |-> 0]

\* The fields of the processor become those of the record r.
Becomes(r) ==
    /\ tag_configs' = r.tag_configs
    /\ tag_stack' = r.tag_stack
    /\ partial_buffer' = r.partial_buffer
    /\ untagged_content' = r.untagged_content
    /\ in_tag' = r.in_tag
    /\ current_tag' = r.current_tag
    /\ json_depth' = r.json_depth
    /\ in_quotes' = r.in_quotes
    /\ quote_char' = r.quote_char
    /\ untagged_content_handler' = r.untagged_content_handler
    /\ error_handler_fn' = r.error_handler
    /\ auto_process_untagged' = r.auto_process_untagged
    /\ auto_process_threshold' = r.auto_process_threshold

\* The call of the feed method name (or flush, or reset) with argument a
\* returned or raised, leaving the processor as the record r.
Returns(name, a, r) ==
    /\ feeds < MaxFeeds
    /\ feeds' = feeds + 1
    /\ Becomes(r)
    /\ op' = name
    /\ arg' = a
    /\ calls' = r.calls
    /\ caught' = r.caught
    /\ delivered' = r.delivered
    /\ raised' = r.exc
    /\ scanned' = r.scanned
    /\ UNCHANGED setups

\* A registration or configuration call returned, leaving the processor as the
\* record r; it invokes no callback and, its arguments being valid, raises
\* nothing.
Configures(r) ==
    /\ setups < MaxSetup
    /\ setups' = setups + 1
    /\ Becomes(r)
    /\ UNCHANGED <<op, arg, calls, caught, delivered, raised, scanned, feeds>>

Init ==
    \E args \in Constructions :
        LET r == __init__(args[1], args[2], DefaultThreshold)
        IN  /\ tag_configs = r.tag_configs
            /\ tag_stack = r.tag_stack
            /\ partial_buffer = r.partial_buffer
            /\ untagged_content = r.untagged_content
            /\ in_tag = r.in_tag
            /\ current_tag = r.current_tag
            /\ json_depth = r.json_depth
            /\ in_quotes = r.in_quotes
            /\ quote_char = r.quote_char
            /\ untagged_content_handler = r.untagged_content_handler
            /\ error_handler_fn = r.error_handler
            /\ auto_process_untagged = r.auto_process_untagged
            /\ auto_process_threshold = r.auto_process_threshold
            /\ op = "__init__"
            /\ arg = <<>>
            /\ calls = <<>>
            /\ caught = <<>>
            /\ delivered = <<>>
            /\ raised = NoExc
            /\ scanned = <<>>
            /\ feeds = 0
            /\ setups = 0

RegisterHandler ==
    \E reg \in Registrations :
        Configures(register_handler(Self, reg[1], ArgumentsFor(reg[2])))

SetUntaggedContentHandler ==
    \E handler \in UntaggedHandlers :
        Configures(set_untagged_content_handler(Self, handler))

SetAutoProcessThreshold ==
    \E threshold \in Thresholds :
        Configures(set_auto_process_threshold(Self, threshold))

ProcessToken ==
    \E token \in Tokens :
        Returns("process_token", <<token>>, process_token(Self, token))

ProcessTokens ==
    \E tokens \in TokenLists :
        Returns("process_tokens", tokens, process_tokens(Self, tokens))

ProcessString ==
    \E content \in Strings :
        Returns("process_string", <<content>>, process_string(Self, content))

Flush == Returns("flush", <<>>, flush(Self))

Reset == Returns("reset", <<>>, reset(Self))

Next ==
    \/ RegisterHandler
    \/ SetUntaggedContentHandler
    \/ SetAutoProcessThreshold
    \/ ProcessToken
    \/ ProcessTokens
    \/ ProcessString
    \/ Flush
    \/ Reset

Spec == Init /\ [][Next]_vars

-----------------------------------------------------------------------------
(* Helpers of the properties *)

\* The invocations of tag handlers among a log of callback invocations.
HandlerCalls(log) == SelectSeq(log, LAMBDA c : c.kind = "handler")

\* The processor with its registrations and a scanner in its initial state.
Fresh == reset(Self)

\* The tokens fed one by one by a caller that catches what leaves a feed
\* (the exception of an error handler that fails) and goes on with the next.
RECURSIVE FeedEach(_, _)
FeedEach(self, tokens) ==
    IF tokens = <<>> THEN self
    ELSE FeedEach(process_token([self EXCEPT !.exc = NoExc], Head(tokens)),
                  Tail(tokens))

\* One character per chunk.
Chars(s) == [i \in DOMAIN s |-> <<s[i]>>]

\* The ways of feeding s studied: whole, one character per chunk, and cut in two.
Chunkings(s) ==
    {<<s>>, Chars(s)}
        \cup {<<SubSeq(s, 1, i), SubSeq(s, i + 1, Len(s))>> : i \in 1..(Len(s) - 1)}

OpenTag(name) == <<"<">> \o name \o <<">">>
CloseTag(name) == <<"<", "/">> \o name \o <<">">>
SelfClosingTag(name) == <<"<">> \o name \o <<"/", ">">>

\* <a><b>x</b></a>
NestedInput ==
    OpenTag(<<"a">>) \o OpenTag(<<"b">>) \o <<"x">> \o CloseTag(<<"b">>)
        \o CloseTag(<<"a">>)

\* <a>x y</a>
SpacedInput == OpenTag(<<"a">>) \o <<"x", " ", "y">> \o CloseTag(<<"a">>)

\* Well-formed inputs: balanced, properly nested tags around plain text.
WellFormedInputs ==
    {SpacedInput, NestedInput, OpenTag(<<"a">>) \o <<"x">> \o CloseTag(<<"a">>)}

-----------------------------------------------------------------------------
(* C1: feed-order invariance.  However a well-formed input is cut into       *)
(* chunks, feeding the chunks in order gives the tag handlers the same       *)
(* invocations, in the same order, as feeding the input whole.               *)

C1_FeedOrderInvariance ==
    \A s \in WellFormedInputs : \A chunks \in Chunkings(s) :
        HandlerCalls(process_tokens(Fresh, chunks).calls)
            = HandlerCalls(process_string(Fresh, s).calls)

-----------------------------------------------------------------------------
(* C2: in the body of an open tag, a '<' or '>' met at jsonDepth > 0 is      *)
(* appended to the tag's content and starts or ends no tag token; the body   *)
(* {"x": "<not-a-tag>"} reaches the tag's handler verbatim when the tag      *)
(* closes.                                                                   *)

\* The innermost open context.
Top == tag_stack[Len(tag_stack)]

C2_JsonBodyVerbatim ==
    (tag_stack # <<>> /\ ~in_tag) =>
        /\ json_depth > 0 =>
              \A c \in {"<", ">"} :
                  LET r == _process_char(Self, c)
                  IN  /\ r.tag_stack =
                             [tag_stack EXCEPT ![Len(tag_stack)].content = Append(@, c)]
                      /\ ~r.in_tag
                      /\ r.current_tag = <<>>
        /\ (json_depth = 0 /\ ~FnRaises(Top.config.streaming_callback)) =>
              LET r == process_string(Self, JsonBody \o CloseTag(Top.name))
              IN  HandlerCalls(r.calls) =
                      <<Call("handler", Top.config.handler, Top.name,
                             Top.attributes, Top.content \o JsonBody, "")>>

\* A tag was closed whose body, as its handler got it, is {"x": "<not-a-tag>"}.
C2_Witness ==
    /\ op = "process_token"
    /\ arg = <<CloseTag(<<"a">>)>>
    /\ \E i \in DOMAIN calls :
           calls[i].kind = "handler" /\ calls[i].content = JsonBody

-----------------------------------------------------------------------------
(* C3: while a tag token is accumulated, a '<' or '>' met at jsonDepth > 0   *)
(* is no tag delimiter: it is appended to the token, which it neither        *)
(* restarts nor completes.                                                   *)

C3_NoDelimiterInJsonAttribute ==
    (in_tag /\ json_depth > 0) =>
        \A c \in {"<", ">"} :
            LET r == _process_char(Self, c)
            IN  /\ r.in_tag
                /\ r.current_tag = Append(current_tag, c)
                /\ r.tag_stack = tag_stack
                /\ r.calls = <<>>
                /\ ~Failed(r)

-----------------------------------------------------------------------------
(* C4: the handler of an inner tag is invoked before the handler of the tag  *)
(* enclosing it: handlers fire in the order of the closing tags, and         *)
(* <a><b>x</b></a> gives b's handler "x" before a's handler is invoked.      *)

\* No callback of the configuration raises.
Quiet(config) ==
    /\ ~FnRaises(config.handler)
    /\ ~FnRaises(config.streaming_callback)
    /\ ~FnRaises(config.on_tag_start_callback)
    /\ ~FnRaises(config.on_tag_complete_callback)

\* The invocation of its handler that closing the context gives.
HandlerCallOf(context) ==
    Call("handler", context.config.handler, context.name, context.attributes,
         context.content, "")

C4_InnerHandlerFirst ==
    /\ (Len(tag_stack) >= 2 /\ json_depth = 0) =>
          LET inner == tag_stack[Len(tag_stack)]
              outer == tag_stack[Len(tag_stack) - 1]
              r == process_string(Self, CloseTag(inner.name) \o CloseTag(outer.name))
              h == HandlerCalls(r.calls)
          IN  /\ Len(h) >= 1
              /\ h[1] = HandlerCallOf(inner)
              /\ Len(h) <= 2
              /\ Len(h) = 2 => h[2] = HandlerCallOf(outer)
              /\ (Quiet(inner.config) /\ Quiet(outer.config)) => Len(h) = 2
    /\ (/\ {<<"a">>, <<"b">>} \subseteq DOMAIN tag_configs
        /\ \A t \in DOMAIN tag_configs : Quiet(tag_configs[t])) =>
          LET h == HandlerCalls(process_string(Fresh, NestedInput).calls)
          IN  /\ Len(h) = 2
              /\ h[1].fn = tag_configs[<<"b">>].handler
              /\ h[1].content = <<"x">>
              /\ h[2].fn = tag_configs[<<"a">>].handler

\* <a><b>x</b></a> was fed and b's handler, then a's handler, were invoked.
C4_Witness ==
    /\ op = "process_token"
    /\ arg = <<NestedInput>>
    /\ Len(HandlerCalls(calls)) = 2
    /\ HandlerCalls(calls)[1].tag_name = <<"b">>
    /\ HandlerCalls(calls)[1].content = <<"x">>
    /\ HandlerCalls(calls)[2].tag_name = <<"a">>

-----------------------------------------------------------------------------
(* C5: the content given to the handler of a closed tag is everything        *)
(* between its opening and closing tags; it holds at least the body          *)
(* characters of its nested tags: for <a><b>x</b></a>, a's content is        *)
(* "<b>x</b>" or "x".                                                        *)

C5_OuterContentHoldsInnerBody ==
    (/\ op \in {"process_token", "process_string"}
     /\ arg = <<NestedInput>>
     /\ Len(HandlerCalls(calls)) = 2
     /\ HandlerCalls(calls)[2].tag_name = <<"a">>) =>
        HandlerCalls(calls)[2].content
            \in {OpenTag(<<"b">>) \o <<"x">> \o CloseTag(<<"b">>), <<"x">>}

-----------------------------------------------------------------------------
(* C6: for a registered tag t and any starting state, <t attrs></t>         *)
(* invokes handler(attrs, "") exactly once, and <t attrs/> fed from the      *)
(* same state gives the same callback invocations, the same errors and the  *)
(* same tag stack.                                                           *)

\* Attribute texts, each with the dict it denotes; the last has an
\* ideographic space after the tag name and an accented letter for a name.
AttrCases ==
    {<<(<<>>), EmptyDict>>,
     <<(<<" ", "k", "=", "'", "v", "'">>), (<<"k">> :> <<"v">>)>>,
     <<(<<"U+3000", "U+00E9", "=", "'", "v", "'">>),
       (<<"U+00E9">> :> <<"v">>)>>}

\* Attribute texts whose quoted value holds a '>', plain and inside braces,
\* each with the dict it denotes: k='>' and k='{>}'.
DelimiterAttrCases ==
    {<<(<<" ", "k", "=", "'", ">", "'">>), (<<"k">> :> <<">">>)>>,
     <<(<<" ", "k", "=", "'", "{", ">", "}", "'">>),
       (<<"k">> :> <<"{", ">", "}">>)>>}

OpenCloseForm(t, text) == <<"<">> \o t \o text \o <<">">> \o CloseTag(t)
SelfClosingForm(t, text) == <<"<">> \o t \o text \o <<"/", ">">>

\* What a caller can observe of a feed: callbacks, errors, resulting stack.
Outcome(r) == <<r.calls, r.caught, r.delivered, r.tag_stack>>

\* The invocations of the callbacks of tags (all but the untagged handler's).
TagCalls(log) == SelectSeq(log, LAMBDA c : c.kind # "untagged")

\* t may be opened: it allows nesting in itself, or no open tag has its name.
MayOpen(t) ==
    \/ tag_configs[t].allows_nested_of_same_type
    \/ \A i \in DOMAIN tag_stack : tag_stack[i].name # t

\* C6: in every state and for every registered tag t and attribute text,
\* <t attrs></t> and <t attrs/> give the same callback invocations, errors
\* and tag stack, and the handler of t is invoked once, with the attributes
\* the text denotes and the empty content.
C6_SelfClosingSameAsOpenClose ==
    \A t \in DOMAIN tag_configs : \A at \in AttrCases \cup DelimiterAttrCases :
        LET open == process_string(Self, OpenCloseForm(t, at[1]))
            selfc == process_string(Self, SelfClosingForm(t, at[1]))
        IN  /\ Outcome(open) = Outcome(selfc)
            /\ HandlerCalls(open.calls)
                   = <<Call("handler", tag_configs[t].handler, t, at[2],
                            <<>>, "")>>

-----------------------------------------------------------------------------
(* C7: an opening tag of a tag that does not allow nesting in itself, met    *)
(* while a context of that name is anywhere on the stack, raises a           *)
(* NestedTagViolation to the error boundary, pushes nothing and does not     *)
(* invoke onTagStart.                                                        *)

C7_NestedTagViolation ==
    \A t \in DOMAIN tag_configs :
        (json_depth = 0 /\ ~MayOpen(t)) =>
            LET r == process_string(Self, OpenTag(t))
            IN  /\ Len(r.caught) = 1
                /\ r.caught[1].kind = "NestedTagViolation"
                /\ r.caught[1].ctx.tag_name = t
                /\ callable(error_handler_fn) => r.delivered = r.caught
                /\ r.tag_stack = tag_stack
                /\ \A i \in DOMAIN r.calls : r.calls[i].kind # "on_tag_start"

\* <a> was fed while a, which sits below b on the stack, was open, and was
\* refused.
C7_Witness ==
    /\ op = "process_token"
    /\ arg = <<OpenTag(<<"a">>)>>
    /\ Len(tag_stack) = 2
    /\ tag_stack[1].name = <<"a">>
    /\ tag_stack[2].name = <<"b">>
    /\ Len(caught) = 1
    /\ caught[1].kind = "NestedTagViolation"

-----------------------------------------------------------------------------
(* C8: a closing tag that does not match the top of the stack is an error:   *)
(* UnexpectedClosingTag on an empty stack, MismatchedClosingTag (expected    *)
(* the top's name, received the tag's name) otherwise; the stack is left     *)
(* as it was and no handler or onTagComplete callback is invoked.            *)

\* The names of the closing tags tried.
ClosingNames == {<<"a">>, <<"b">>, <<"u">>}

C8_UnmatchedClosingTag ==
    \A name \in ClosingNames :
        (/\ json_depth = 0
         /\ ~Failed(flush(Self))
         /\ (tag_stack = <<>> \/ Top.name # name)) =>
            LET r == process_string(Self, CloseTag(name))
            IN  /\ Len(r.caught) = 1
                /\ IF tag_stack = <<>>
                   THEN /\ r.caught[1].kind = "UnexpectedClosingTag"
                        /\ r.caught[1].ctx = [tag_name |-> name]
                   ELSE /\ r.caught[1].kind = "MismatchedClosingTag"
                        /\ r.caught[1].ctx = [expected |-> Top.name, received |-> name]
                /\ callable(error_handler_fn) => r.delivered = r.caught
                /\ r.tag_stack = tag_stack
                /\ \A i \in DOMAIN r.calls :
                       r.calls[i].kind \notin {"handler", "on_tag_complete"}

\* </b> was fed while a was the innermost open tag, and was refused.
C8_Witness ==
    /\ op = "process_token"
    /\ arg = <<CloseTag(<<"b">>)>>
    /\ tag_stack # <<>>
    /\ Top.name = <<"a">>
    /\ Len(caught) = 1
    /\ caught[1].kind = "MismatchedClosingTag"
    /\ caught[1].ctx = [expected |-> <<"a">>, received |-> <<"b">>]
    /\ calls = <<>>

-----------------------------------------------------------------------------
(* C9: with no error handler configured, an error met while a character is   *)
(* processed is suppressed and does not abort the stream: every character    *)
(* after the offending one, in the same token and in later tokens, is still  *)
(* scanned.                                                                  *)

C9_ErrorDoesNotAbortToken ==
    (/\ op \in {"process_token", "process_string"}
     /\ error_handler_fn = None
     /\ caught # <<>>) =>
        scanned = <<Len(arg[1])>>

-----------------------------------------------------------------------------
(* C10: every structural error and every failure of a user callback, in      *)
(* any feed operation or in flush, goes through the error boundary: it is    *)
(* given to the configured error handler and never leaves the operation as   *)
(* an exception.                                                             *)

C10_ErrorsNeverEscape ==
    /\ raised.kind = "none"
    /\ callable(error_handler_fn) => delivered = caught

-----------------------------------------------------------------------------
(* C11: an opening tag of a name that is not registered is no error: it     *)
(* pushes no context and invokes no callback (the '<' only flushes the      *)
(* pending untagged content), and the body character that follows it is     *)
(* appended to the content of the innermost open tag, or to the untagged    *)
(* buffer when no tag is open.                                              *)

\* The tag names tried.
TagNames == {<<"a">>, <<"b">>, <<"u">>}

C11_UnregisteredOpeningTag ==
    \A u \in TagNames \ DOMAIN tag_configs :
        (json_depth = 0 /\ ~in_quotes /\ ~Failed(flush(Self))) =>
            LET r == process_string(Self, OpenTag(u))
                body == _process_char(r, "x")
            IN  /\ r.caught = <<>>
                /\ r.tag_stack = tag_stack
                /\ r.calls = flush(Self).calls
                /\ ~r.in_tag
                /\ r.current_tag = <<>>
                /\ IF tag_stack # <<>>
                   THEN body.tag_stack =
                            [tag_stack EXCEPT ![Len(tag_stack)].content =
                                Append(@, "x")]
                   ELSE body.untagged_content = <<"x">>

\* <b>, which is not registered, was fed while a tag was open: nothing was
\* raised, pushed or invoked.
C11_Witness ==
    /\ op = "process_token"
    /\ arg = <<OpenTag(<<"b">>)>>
    /\ <<"b">> \notin DOMAIN tag_configs
    /\ tag_stack # <<>>
    /\ Top.name = <<"a">>
    /\ caught = <<>>
    /\ calls = <<>>
    /\ ~in_tag

-----------------------------------------------------------------------------
(* C12: with the automatic processing of untagged content enabled, a         *)
(* character step that leaves the untagged buffer longer than the            *)
(* threshold delivers the buffer to the untagged handler and clears it in    *)
(* that same step: from a buffer of at most threshold characters, every      *)
(* character step leaves at most threshold characters in the buffer and      *)
(* delivers no chunk longer than threshold + 1.                              *)

\* The characters fed in one step.
StepChars == {"x", " ", "<", ">", "{", "}", "\""}

\* The contents given to the untagged handler among a log of invocations.
UntaggedChunks(log) ==
    {log[i].content : i \in {j \in DOMAIN log : log[j].kind = "untagged"}}

C12_UntaggedBufferBounded ==
    (auto_process_untagged /\ Len(untagged_content) <= auto_process_threshold) =>
        \A c \in StepChars :
            LET r == _process_char(Self, c)
            IN  /\ Len(r.untagged_content) <= auto_process_threshold
                /\ \A chunk \in UntaggedChunks(r.calls) :
                       Len(chunk) <= auto_process_threshold + 1

-----------------------------------------------------------------------------
(* C13: after reset(), whatever was fed before, the scanner is in its        *)
(* initial state: the processor equals a newly constructed one with the      *)
(* same registrations and settings, and a fresh stream fed to it gives the   *)
(* callback invocations and errors that the new processor gives.             *)

\* A newly constructed processor given the registrations and settings of
\* this one.
NewProcessor ==
    [__init__(error_handler_fn, auto_process_untagged, auto_process_threshold)
        EXCEPT !.tag_configs = tag_configs,
               !.untagged_content_handler = untagged_content_handler]

\* The streams fed after the reset.
FreshStreams == {NestedInput, <<"x", " ", "y">>}

C13_ResetRestoresInitialScanner ==
    /\ reset(Self) = NewProcessor
    /\ \A s \in FreshStreams :
           Outcome(process_string(reset(Self), s))
               = Outcome(process_string(NewProcessor, s))

\* A state to reset from: an error left the scanner inside a tag token, a tag
\* is open and a brace is open, and a further call is explored.
C13_Witness ==
    /\ in_tag
    /\ tag_stack # <<>>
    /\ json_depth > 0
    /\ feeds < MaxFeeds


\* C14: reset() changes only the scanning state.  In every state, the tag
\* registry (every registered name with its configuration), the untagged
\* content handler, the error handler, the auto-process switch and threshold
\* are after reset() what they were before it, and reset() invokes no callback,
\* catches and raises nothing.
C14_ResetKeepsRegistrations ==
    LET r == reset(Self)
    IN  /\ r.tag_configs = tag_configs
        /\ r.untagged_content_handler = untagged_content_handler
        /\ r.error_handler = error_handler_fn
        /\ r.auto_process_untagged = auto_process_untagged
        /\ r.auto_process_threshold = auto_process_threshold
        /\ r.calls = <<>> /\ r.caught = <<>> /\ r.delivered = <<>>
        /\ ~Failed(r)

\* reset() has just returned on a processor with a registered tag, an untagged
\* content handler and an error handler.
C14_Witness ==
    /\ op = "reset"
    /\ <<"a">> \in DOMAIN tag_configs
    /\ untagged_content_handler = "u1"
    /\ error_handler_fn = "eh"
    /\ tag_stack = <<>> /\ calls = <<>>


\* C15: flush() delivers the pending untagged content to the untagged content
\* handler and empties the untagged buffer, and leaves the tag stack, the
\* content of every open context, a partial tag token and the quote and brace
\* state as they were; it invokes no tag handler and no completion callback.
C15_FlushDeliversAndKeepsOpenTags ==
    LET r == flush(Self)
        pending == Strip(untagged_content)
    IN  /\ r.untagged_content = <<>>
        /\ (pending # <<>> /\ untagged_content_handler # None) =>
               r.calls = <<Call("untagged", untagged_content_handler, <<>>,
                                EmptyDict, pending, "")>>
        /\ \A i \in DOMAIN r.calls : r.calls[i].kind = "untagged"
        /\ r.tag_stack = tag_stack
        /\ r.in_tag = in_tag /\ r.current_tag = current_tag
        /\ r.partial_buffer = partial_buffer
        /\ r.json_depth = json_depth /\ r.in_quotes = in_quotes
        /\ r.quote_char = quote_char


\* The configurations register_handler is given for the tag name t.
ConfigsFor(t) == {reg[2] : reg \in {g \in Registrations : g[1] = t}}

\* The callbacks that closing the context gives: its handler, then its
\* completion callback unless there is none or the handler raised.
ClosingCallsOf(context) ==
    <<HandlerCallOf(context)>> \o
        (IF context.config.on_tag_complete_callback # None
            /\ ~FnRaises(context.config.handler)
         THEN <<Call("on_tag_complete", context.config.on_tag_complete_callback,
                     context.name, context.attributes, context.content, "")>>
         ELSE <<>>)

\* C16: the configuration of a context is resolved once, when its tag opens.
\* When register_handler is called again for the name of the open innermost
\* context, the streaming callback given the next body character, and the
\* handler and completion callback invoked when the context closes, are those
\* of the configuration the context was opened with; a tag of that name opened
\* afterwards carries the new configuration.
C16_ConfigResolvedAtOpen ==
    (tag_stack # <<>> /\ ~in_tag /\ json_depth = 0 /\ ~in_quotes
        /\ ~Failed(flush(Self))) =>
        \A config \in ConfigsFor(Top.name) :
            LET again == register_handler(Self, Top.name, ArgumentsFor(config))
                body == _process_char(again, "x")
                closed == process_string(again, CloseTag(Top.name))
                reopened == process_string(closed, OpenTag(Top.name))
            IN  /\ again.tag_stack = tag_stack
                /\ body.calls =
                       IF Top.config.streaming_callback # None
                       THEN <<Call("streaming", Top.config.streaming_callback,
                                   Top.name, Top.attributes, <<>>, "x")>>
                       ELSE <<>>
                /\ TagCalls(closed.calls) = ClosingCallsOf(Top)
                /\ closed.tag_stack = SubSeq(tag_stack, 1, Len(tag_stack) - 1)
                /\ Len(reopened.caught) = Len(closed.caught) =>
                       /\ Len(reopened.tag_stack) = Len(tag_stack)
                       /\ reopened.tag_stack[Len(tag_stack)].name = Top.name
                       /\ reopened.tag_stack[Len(tag_stack)].config = config

\* Tag a was opened as Full and registered again as Plain while open; the body
\* text fed after that went to the streaming callback of Full.
C16_Witness ==
    /\ op = "process_token" /\ arg = <<(<<"x", " ", "y">>)>>
    /\ tag_stack # <<>> /\ Top.name = <<"a">>
    /\ Top.config = Full
    /\ tag_configs[<<"a">>] = Plain
    /\ Len(calls) = 3 /\ calls[1].fn = "s1"


\* The empty token and tokens of whitespace only.
BlankTokens ==
    {<<>>, <<" ">>, <<" ", " ">>, <<"\n">>, <<"\t", " ">>, <<"\r">>,
     <<"\f", " ">>, <<"U+2003">>, <<"U+3000", " ">>}

\* C17: feeding an empty or whitespace-only token is a no-op in every scanner
\* state, through process_token, process_string and process_tokens alike: the
\* tag stack with the contents of the open tags, the untagged buffer, the tag
\* token, the quote and brace state and the configuration stay as they were,
\* no character is scanned, no callback invoked and no error caught.
C17_BlankTokenIsNoOp ==
    \A token \in BlankTokens :
        LET r == process_token(Self, token)
        IN  /\ [r EXCEPT !.scanned = <<>>] = Self
            /\ r.scanned = <<0>>
            /\ process_string(Self, token) = r
            /\ [process_tokens(Self, <<token, token>>) EXCEPT !.scanned = <<>>]
                   = Self

\* A whitespace token was fed while a tag was open and a tag token was in
\* progress.
C17_Witness ==
    /\ op = "process_token" /\ arg = <<(<<" ">>)>>
    /\ in_tag /\ current_tag = <<"<">>
    /\ tag_stack # <<>>
    /\ scanned = <<0>> /\ calls = <<>>


\* The callback invocations of a feed, each with the number of contexts that
\* were on the tag stack when it was made; the untagged handler's left out.
At(call, depth) == [call |-> call, depth |-> depth]

TagTrace(r) ==
    SelectSeq([i \in DOMAIN r.calls |-> At(r.calls[i], r.depths[i])],
              LAMBDA e : e.call.kind # "untagged")

\* The invocations the streaming callback of context gets for the characters
\* body, made with the context on top of a stack of depth contexts.
StreamingOf(context, body, depth) ==
    IF context.config.streaming_callback = None THEN <<>>
    ELSE [i \in 1..Len(body) |->
             At(Call("streaming", context.config.streaming_callback,
                     context.name, context.attributes, <<>>, body[i]), depth)]

\* The invocations that closing context gives, the stack holding depth
\* contexts below it: the handler, then the completion callback if any.
ClosingOf(context, depth) ==
    <<At(HandlerCallOf(context), depth)>> \o
        (IF context.config.on_tag_complete_callback = None THEN <<>>
         ELSE <<At(Call("on_tag_complete",
                        context.config.on_tag_complete_callback, context.name,
                        context.attributes, context.content, ""), depth)>>)

\* The life of one instance of tag t opened on a stack of depth contexts:
\* onTagStart before the push, the streaming callbacks with the context on
\* the stack, the handler and onTagComplete after the pop.
Lifecycle(t, attrs, body, depth) ==
    LET context == [name |-> t, attributes |-> attrs, content |-> body,
                    config |-> tag_configs[t]]
    IN  (IF context.config.on_tag_start_callback = None THEN <<>>
         ELSE <<At(Call("on_tag_start", context.config.on_tag_start_callback,
                        t, attrs, <<>>, ""), depth)>>)
        \o StreamingOf(context, body, depth + 1)
        \o ClosingOf(context, depth)

\* What is left of a trace when the handler raises: the completion callback
\* is not invoked.
UnlessHandlerRaises(config, trace) ==
    IF FnRaises(config.handler) /\ config.on_tag_complete_callback # None
    THEN SubSeq(trace, 1, Len(trace) - 1)
    ELSE trace

\* The body characters a context collects of the token xy: the exception of a
\* raising streaming callback ends the token at its first character.
BodySeen(config) ==
    IF FnRaises(config.streaming_callback) THEN <<"x">> ELSE <<"x", "y">>

\* The instance can be opened: the tag may nest here and onTagStart returns.
Opens(t) == MayOpen(t) /\ ~FnRaises(tag_configs[t].on_tag_start_callback)

\* C18: for every instance of a registered tag that is opened and later
\* closed, the callbacks come in a fixed order: onTagStart(name, attributes)
\* once before the context is pushed, the streaming callbacks of the body
\* characters while it is on the stack, and on the matching close, after the
\* pop, handler(attributes, content) exactly once followed by
\* onTagComplete(name, attributes, content).  Stated for an instance opened,
\* filled and closed by three tokens from any state outside braces, and for
\* the innermost context already open in a state.
C18_CallbackOrder ==
    (json_depth = 0 /\ ~in_quotes /\ ~Failed(flush(Self))) =>
        /\ \A t \in DOMAIN tag_configs : \A at \in AttrCases :
               LET r == FeedEach(Self,
                            <<(<<"<">> \o t \o at[1] \o <<">">>),
                              (<<"x", "y">>), CloseTag(t)>>)
               IN  Opens(t) =>
                       /\ TagTrace(r) =
                              Lifecycle(t, at[2], BodySeen(tag_configs[t]),
                                        Len(tag_stack))
                       /\ r.tag_stack = tag_stack
        /\ (tag_stack # <<>> /\ ~in_tag
               /\ ~FnRaises(Top.config.streaming_callback)) =>
               LET r == process_string(Self, <<"x">> \o CloseTag(Top.name))
                   closing == [Top EXCEPT !.content = Append(@, "x")]
               IN  /\ TagTrace(r) =
                          StreamingOf(Top, <<"x">>, Len(tag_stack))
                              \o ClosingOf(closing, Len(tag_stack) - 1)
                   /\ r.tag_stack = SubSeq(tag_stack, 1, Len(tag_stack) - 1)

\* Amended: onTagComplete follows the handler unless the handler raised; a
\* handler that raises is still invoked exactly once, after the pop, and
\* nothing follows it.
C18_CallbackOrderUnlessHandlerRaises ==
    (json_depth = 0 /\ ~in_quotes /\ ~Failed(flush(Self))) =>
        /\ \A t \in DOMAIN tag_configs : \A at \in AttrCases :
               LET r == FeedEach(Self,
                            <<(<<"<">> \o t \o at[1] \o <<">">>),
                              (<<"x", "y">>), CloseTag(t)>>)
               IN  Opens(t) =>
                       /\ TagTrace(r) =
                              UnlessHandlerRaises(tag_configs[t],
                                  Lifecycle(t, at[2], BodySeen(tag_configs[t]),
                                            Len(tag_stack)))
                       /\ r.tag_stack = tag_stack
        /\ (tag_stack # <<>> /\ ~in_tag
               /\ ~FnRaises(Top.config.streaming_callback)) =>
               LET r == process_string(Self, <<"x">> \o CloseTag(Top.name))
                   closing == [Top EXCEPT !.content = Append(@, "x")]
               IN  /\ TagTrace(r) =
                          UnlessHandlerRaises(Top.config,
                              StreamingOf(Top, <<"x">>, Len(tag_stack))
                                  \o ClosingOf(closing, Len(tag_stack) - 1))
                   /\ r.tag_stack = SubSeq(tag_stack, 1, Len(tag_stack) - 1)

\* <a>, x, </a> were fed to a processor with a registered as Full: onTagStart,
\* the streaming callback, the handler and onTagComplete were invoked in turn.
C18_Witness ==
    /\ op = "process_tokens"
    /\ tag_stack = <<>>
    /\ Len(calls) = 4
    /\ calls[1].kind = "on_tag_start" /\ calls[2].kind = "streaming"
    /\ calls[3] = Call("handler", "h2", <<"a">>, EmptyDict, <<"x">>, "")
    /\ calls[4].kind = "on_tag_complete"


\* C19: whenever '>' is processed while a tag token is in progress, the token
\* is classified and, after that character step and after the feed that holds
\* it, the scanner has left the tag token and the token buffer is empty,
\* whatever the outcome of classifying the token.
C19_TagTokenEndsAtCloser ==
    in_tag =>
        LET step == _process_char(Self, ">")
            r == process_token(Self, <<">">>)
        IN  /\ ~step.in_tag /\ step.current_tag = <<>>
            /\ ~r.in_tag /\ r.current_tag = <<>>


\* C20: whenever '<' is processed outside quotes and at brace depth 0, with
\* or without a tag token in progress and with or without open tags, the
\* accumulated untagged content is given to the untagged content handler and,
\* after that character step, the untagged buffer is empty, a tag token is in
\* progress and the token buffer holds exactly that '<'.
C20_TagMarkerStartsToken ==
    (~in_quotes /\ json_depth = 0) =>
        LET step == _process_char(Self, "<")
            pending == Strip(untagged_content)
        IN  /\ step.untagged_content = <<>>
            /\ step.in_tag
            /\ step.current_tag = <<"<">>
            /\ step.calls =
                   IF pending # <<>> /\ untagged_content_handler # None
                   THEN <<Call("untagged", untagged_content_handler, <<>>,
                               EmptyDict, pending, "")>>
                   ELSE <<>>


\* The characters given to streaming callbacks, in order, among a trace.
RECURSIVE CharsOf(_)
CharsOf(trace) ==
    IF trace = <<>> THEN <<>>
    ELSE (IF Head(trace).call.kind = "streaming"
          THEN <<Head(trace).call.char>> ELSE <<>>) \o CharsOf(Tail(trace))

\* The entries of a trace made with the given number of contexts on the stack.
AtDepth(trace, depth) == SelectSeq(trace, LAMBDA e : e.depth = depth)

\* The content given to the handlers invoked in a trace.
HandledContent(trace) ==
    LET handled == SelectSeq(trace, LAMBDA e : e.call.kind = "handler")
    IN  [i \in DOMAIN handled |-> handled[i].call.content]

\* A body fed in tokens: text, a blank token, braces around a '<', the opening
\* tag of an unregistered name, text.
BodyTokens ==
    <<(<<"x", " ">>), (<<" ">>), (<<"{", "<", "}">>), OpenTag(<<"u">>),
      (<<"y">>)>>

\* What a context collects of BodyTokens.
BodyCollected == <<"x", " ", "{", "<", "}", "y">>

\* C21: every character processed while no tag token is in progress and a tag
\* is open, other than a '<' that starts a tag token, is appended to the
\* content of the innermost context and, if that context has a streaming
\* callback, given to it with the context's attributes in the same step; no
\* other step adds to the content of a context or invokes a streaming
\* callback.  Consequently, when a context is closed, the characters its
\* streaming callback received, in order, are the content given to its
\* handler.
C21_StreamedIsContent ==
    /\ \A c \in StepChars :
           LET r == _process_char(Self, c)
           IN  IF tag_stack # <<>> /\ ~in_tag
                  /\ ~is_tag_start(track_json(Self, c), c)
               THEN /\ r.tag_stack =
                           [tag_stack EXCEPT ![Len(tag_stack)].content =
                                                 Append(@, c)]
                    /\ TagTrace(r) = StreamingOf(Top, <<c>>, Len(tag_stack))
               ELSE /\ CharsOf(TagTrace(r)) = <<>>
                    /\ \A i \in DOMAIN r.tag_stack \cap DOMAIN tag_stack :
                           r.tag_stack[i] = tag_stack[i]
    /\ (json_depth = 0 /\ ~in_quotes /\ ~Failed(flush(Self))) =>
           \A t \in DOMAIN tag_configs :
               LET r == process_tokens(Self,
                            <<OpenTag(t)>> \o BodyTokens \o <<CloseTag(t)>>)
                   depth == Len(tag_stack)
                   mine == AtDepth(TagTrace(r), depth + 1)
                   closing == AtDepth(TagTrace(r), depth)
               IN  (Opens(t) /\ tag_configs[t].streaming_callback # None) =>
                       /\ \A i \in DOMAIN HandledContent(closing) :
                              HandledContent(closing)[i] = CharsOf(mine)
                       /\ ~FnRaises(tag_configs[t].streaming_callback) =>
                              /\ CharsOf(mine) = BodyCollected
                              /\ HandledContent(closing) = <<BodyCollected>>

\* <a>x y</a> was fed with a registered as Full: the streaming callback got
\* x, the space and y, and the handler the content "x y".
C21_Witness ==
    /\ op = "process_string"
    /\ Len(calls) = 6
    /\ calls[2].kind = "streaming" /\ calls[2].char = "x"
    /\ calls[3].kind = "streaming" /\ calls[3].char = " "
    /\ calls[4].kind = "streaming" /\ calls[4].char = "y"
    /\ calls[5] = Call("handler", "h2", <<"a">>, EmptyDict, <<"x", " ", "y">>, "")


\* The parent of a context is kept as its position on the stack, 0 for None:
\* each context's parent is the context immediately below it.
StrictlyNested(stack) == \A i \in DOMAIN stack : stack[i].parent = i - 1

\* One context was pushed on top of the stack of s: a new, empty context of a
\* registered name with the configuration registered for it, its parent the
\* former top.
Pushed(s, r) ==
    /\ Len(r.tag_stack) = Len(s.tag_stack) + 1
    /\ SubSeq(r.tag_stack, 1, Len(s.tag_stack)) = s.tag_stack
    /\ LET context == r.tag_stack[Len(r.tag_stack)]
       IN  /\ context.parent = Len(s.tag_stack)
           /\ context.content = <<>>
           /\ context.name \in DOMAIN s.tag_configs
           /\ context.config = s.tag_configs[context.name]

\* The top context of the stack of s was popped.
Popped(s, r) ==
    /\ s.tag_stack # <<>>
    /\ r.tag_stack = SubSeq(s.tag_stack, 1, Len(s.tag_stack) - 1)

\* The contexts on the stack of s are those of r; the innermost may have
\* collected the character c.
SameContexts(s, r, c) ==
    \/ r.tag_stack = s.tag_stack
    \/ /\ s.tag_stack # <<>>
       /\ r.tag_stack =
              [s.tag_stack EXCEPT ![Len(s.tag_stack)].content = Append(@, c)]

\* The tag token that a '>' completes in s, stripped.
CompletedToken(s) == Strip(Append(s.current_tag, ">"))

\* What the step of the character c from s to r may do to the stack: nothing,
\* a push at the '>' of an opening tag of the pushed name, or a pop at the
\* '>' of a closing tag of the popped name.
StackStep(s, r, c) ==
    \/ SameContexts(s, r, c)
    \/ /\ c = ">" /\ s.in_tag /\ Pushed(s, r)
       /\ ~StartsWith(CompletedToken(s), <<"<", "/">>)
       /\ ~EndsWith(CompletedToken(s), <<"/", ">">>)
       /\ StartsWith(CompletedToken(s),
                     <<"<">> \o r.tag_stack[Len(r.tag_stack)].name)
    \/ /\ c = ">" /\ s.in_tag /\ Popped(s, r)
       /\ StartsWith(CompletedToken(s),
                     <<"<", "/">> \o s.tag_stack[Len(s.tag_stack)].name)

\* The opening, closing and self-closing tag tokens of the names tried.
MarkupTokens ==
    {OpenTag(t) : t \in TagNames} \cup {CloseTag(t) : t \in TagNames}
        \cup {SelfClosingTag(t) : t \in TagNames}

\* C22: in every reachable state the parent links of the tag stack show strict
\* nesting: the bottom context has no parent and every other context's parent
\* is the context immediately below it.  A character step changes the stack
\* only by pushing one context on top, at the '>' of the opening tag of a
\* registered name, or by popping the top context, at the '>' of the closing
\* tag of its name; reset() empties it and flush() leaves it alone.
C22_StackStrictlyNested ==
    /\ StrictlyNested(tag_stack)
    /\ \A c \in StepChars :
           LET r == _process_char(Self, c)
           IN  StackStep(Self, r, c) /\ StrictlyNested(r.tag_stack)
    /\ \A tok \in MarkupTokens :
           LET before == _process_token_internal(Self, SubSeq(tok, 1, Len(tok) - 1))
               r == _process_char(before, ">")
           IN  ~Failed(before) =>
                   /\ StackStep(before, r, ">")
                   /\ StrictlyNested(r.tag_stack)
    /\ reset(Self).tag_stack = <<>>
    /\ flush(Self).tag_stack = tag_stack

\* <b> was opened inside an open tag: two contexts, the inner one's parent
\* the outer one.
C22_Witness ==
    /\ op = "process_token" /\ arg = <<OpenTag(<<"b">>)>>
    /\ Len(tag_stack) = 2
    /\ tag_stack[1].parent = 0 /\ tag_stack[2].parent = 1
    /\ tag_stack[2].name = <<"b">>


QuoteChars == {"\"", "'"}

\* The characters tried on the quote and brace tracking.
TrackedChars == QuoteChars \cup {"{", "}", "x", "<", ">"}

\* C23: the brace depth is never negative.  A '}' outside quotes at depth 0
\* leaves the depth 0 and raises nothing; a '{' or '}' inside quotes leaves
\* the depth alone; a quote character changes the quoting only at a depth
\* above 0, where it opens a quoted string or, being the character that
\* opened it, closes it.
C23_DepthAndQuotes ==
    /\ json_depth >= 0
    /\ in_quotes => json_depth > 0 /\ quote_char \in QuoteChars
    /\ \A c \in TrackedChars :
           LET tracked == track_json(Self, c)
               r == _process_char(Self, c)
           IN  /\ r.json_depth = tracked.json_depth
               /\ r.in_quotes = tracked.in_quotes
               /\ r.quote_char = tracked.quote_char
               /\ ~Failed(tracked)
               /\ r.json_depth >= 0
               /\ (c = "}" /\ ~in_quotes) =>
                      r.json_depth = IF json_depth = 0 THEN 0 ELSE json_depth - 1
               /\ (c = "{" /\ ~in_quotes) => r.json_depth = json_depth + 1
               /\ (c \in {"{", "}"} /\ in_quotes) =>
                      r.json_depth = json_depth /\ r.in_quotes
               /\ c \notin {"{", "}"} => r.json_depth = json_depth
               /\ c \notin QuoteChars =>
                      r.in_quotes = in_quotes /\ r.quote_char = quote_char
               /\ (c \in QuoteChars /\ json_depth = 0) =>
                      ~r.in_quotes /\ r.quote_char = quote_char
               /\ (c \in QuoteChars /\ json_depth > 0 /\ ~in_quotes) =>
                      /\ r.in_quotes /\ r.quote_char = c
                      /\ \A d \in QuoteChars :
                             LET next == _process_char([r EXCEPT !.exc = NoExc], d)
                             IN  IF d = c
                                 THEN ~next.in_quotes /\ next.quote_char = ""
                                 ELSE next.in_quotes /\ next.quote_char = c
               /\ (c \in QuoteChars /\ in_quotes) =>
                      IF c = quote_char
                      THEN ~r.in_quotes /\ r.quote_char = ""
                      ELSE r.in_quotes /\ r.quote_char = quote_char

\* '}' was fed as the first character to a scanner at depth 0: the depth is
\* still 0 and nothing was caught.
C23_Witness ==
    /\ op = "process_token" /\ arg = <<(<<"}">>)>>
    /\ tag_stack = <<>> /\ untagged_content = <<"}">>
    /\ json_depth = 0 /\ caught = <<>> /\ raised = NoExc


\* Pending untagged content excludes an open tag and a tag token in progress.
NoUntaggedBesideTags(s) ==
    s.untagged_content # <<>> => s.tag_stack = <<>> /\ ~s.in_tag

\* In a log of callback invocations, every delivery of untagged content comes
\* before every callback of a tag.
UntaggedFirst(log) ==
    \A i, j \in DOMAIN log :
        (i < j /\ log[j].kind = "untagged") => log[i].kind = "untagged"

\* C24: in every reachable state, if the untagged buffer is not empty then
\* the tag stack is empty and no tag token is in progress, and every
\* character step keeps it so.  Hence untagged text is delivered before the
\* callbacks of a tag that follows it in the stream: text and a tag fed in one
\* string to a scanner outside any tag give the untagged handler's invocation
\* first, and the tag's callbacks only with the buffer empty.
C24_UntaggedExcludesTags ==
    /\ NoUntaggedBesideTags(Self)
    /\ \A c \in StepChars : NoUntaggedBesideTags(_process_char(Self, c))
    /\ (tag_stack = <<>> /\ ~in_tag /\ json_depth = 0 /\ ~in_quotes) =>
           \A t \in DOMAIN tag_configs :
               LET r == process_string(Self, <<"x", "y">> \o SelfClosingTag(t))
               IN  /\ UntaggedFirst(r.calls)
                   /\ untagged_content_handler # None =>
                          r.calls # <<>> /\ r.calls[1].kind = "untagged"
                   /\ TagCalls(r.calls) # <<>> =>
                          /\ r.untagged_content = <<>>
                          /\ TagCalls(r.calls)[1].tag_name = t

\* A '<' was fed after untagged text: the text went to the untagged handler
\* and a tag token is in progress over an empty untagged buffer.
C24_Witness ==
    /\ op = "process_token" /\ arg = <<(<<"<">>)>>
    /\ in_tag /\ untagged_content = <<>>
    /\ Len(calls) = 1 /\ calls[1].kind = "untagged"


\* What the error boundary is given when a callback of tag t raised.
HandlerFailure(message, t, attributes) ==
    TagProcessorError("HandlerFailure", message,
        [tag_name |-> t, attributes |-> attributes])

\* The errors of a list that the error handler, if it can be called, was
\* given.
DeliveredOf(errors) == IF callable(error_handler_fn) THEN errors ELSE <<>>

\* What leaves a feed whose error went to the error boundary: nothing, unless
\* the error handler itself raises or cannot be called.
LeftByErrorHandler ==
    IF error_handler_fn = None THEN NoExc
    ELSE IF ~callable(error_handler_fn)
    THEN TypeError("'NotCallable' object is not callable")
    ELSE IF FnRaises(error_handler_fn) THEN Boom
    ELSE NoExc

\* Feeds that follow a failed close: the closing tag again, a '>', text.
RetryTokens(t) == <<CloseTag(t), (<<">">>), (<<"x">>)>>

\* C25: when the handler of a tag raises while the tag is closed, the context
\* has been popped and stays popped, its onTagComplete is not invoked, the
\* failure goes to the error boundary wrapped with the tag name and the
\* attributes, and later feeds do not invoke the handler again for it; nothing
\* leaves the feed but what the error handler itself raises.  When
\* onTagStart raises for an opening tag, no context is pushed and the failure
\* goes to the error boundary in the same way.
C25_HandlerFailure ==
    (json_depth = 0 /\ ~in_quotes /\ ~Failed(flush(Self))) =>
        /\ (tag_stack # <<>> /\ FnRaises(Top.config.handler)) =>
               LET r == process_string(Self, CloseTag(Top.name))
                   failure == HandlerFailure("Error in tag handler", Top.name,
                                             Top.attributes)
                   later == FeedEach(r, RetryTokens(Top.name))
               IN  /\ r.tag_stack = SubSeq(tag_stack, 1, Len(tag_stack) - 1)
                   /\ TagCalls(r.calls) = <<HandlerCallOf(Top)>>
                   /\ r.caught = <<failure>>
                   /\ r.delivered = DeliveredOf(<<failure>>)
                   /\ r.exc = LeftByErrorHandler
                   /\ later.tag_stack = r.tag_stack
                   /\ TagCalls(later.calls) = <<HandlerCallOf(Top)>>
        /\ \A t \in DOMAIN tag_configs : \A at \in AttrCases :
               LET r == process_string(Self, <<"<">> \o t \o at[1] \o <<">">>)
                   failure == HandlerFailure("Error in on_tag_start_callback",
                                             t, at[2])
               IN  (MayOpen(t) /\ FnRaises(tag_configs[t].on_tag_start_callback)) =>
                       /\ r.tag_stack = tag_stack
                       /\ TagCalls(r.calls) =
                              <<Call("on_tag_start",
                                     tag_configs[t].on_tag_start_callback, t,
                                     at[2], <<>>, "")>>
                       /\ r.caught = <<failure>>
                       /\ r.delivered = DeliveredOf(<<failure>>)
                       /\ r.exc = LeftByErrorHandler

\* </b> closed a tag whose handler raises: the handler was invoked, nothing
\* after it, the failure was caught and the stack is empty.
C25_Witness ==
    /\ op = "process_token" /\ arg = <<CloseTag(<<"b">>)>>
    /\ tag_stack = <<>>
    /\ Len(calls) = 1 /\ calls[1].kind = "handler" /\ calls[1].fn = "h_raises"
    /\ Len(caught) = 1 /\ caught[1].message = "Error in tag handler"
    /\ tag_configs[<<"b">>].on_tag_complete_callback # None


\* The error a closing tag of the name u gives when it matches no open tag.
UnmatchedClose(stack, u) ==
    IF stack = <<>>
    THEN TagProcessorError("UnexpectedClosingTag",
             "Found closing tag but no opening tags in stack", [tag_name |-> u])
    ELSE TagProcessorError("MismatchedClosingTag", "Mismatched closing tag",
             [expected |-> stack[Len(stack)].name, received |-> u])

\* C26: the closing tag of an unregistered name gets no special treatment.
\* Fed alone or after its opening tag and a body character (which the
\* callback that gets it accepts), </u> is compared
\* with the top of the stack: the error boundary gets UnexpectedClosingTag
\* when the stack is empty and MismatchedClosingTag, with the name of the
\* innermost open tag as expected, when a tag is open; no callback of a tag
\* is invoked and the enclosing tag is neither popped nor completed.
C26_UnregisteredClosingTag ==
    \A u \in TagNames \ DOMAIN tag_configs :
        (json_depth = 0 /\ ~in_quotes /\ ~Failed(flush(Self))) =>
            LET r == process_string(Self, CloseTag(u))
                opened == process_string(Self, OpenTag(u) \o <<"x">>)
                whole == process_string(opened, CloseTag(u))
            IN  /\ r.tag_stack = tag_stack
                /\ HandlerCalls(r.calls) = <<>>
                /\ TagCalls(r.calls) = <<>>
                /\ r.caught = <<UnmatchedClose(tag_stack, u)>>
                /\ r.delivered = DeliveredOf(r.caught)
                /\ Len(opened.tag_stack) = Len(tag_stack)
                /\ (opened.caught = <<>> /\ ~Failed(flush(opened))) =>
                       /\ whole.tag_stack = opened.tag_stack
                       /\ HandlerCalls(whole.calls) = <<>>
                       /\ whole.caught = <<UnmatchedClose(tag_stack, u)>>

\* </b> was fed with b unregistered and a open: a mismatch was caught and a
\* is still open.
C26_Witness ==
    /\ op = "process_token" /\ arg = <<CloseTag(<<"b">>)>>
    /\ <<"b">> \notin DOMAIN tag_configs
    /\ tag_stack # <<>> /\ Top.name = <<"a">>
    /\ caught = <<UnmatchedClose(tag_stack, <<"b">>)>>
    /\ calls = <<>>

=============================================================================
